---------------------------- MODULE Spec2Model ----------------------------
(***************************************************************************)
(* A model of minidump-common/src/format.rs: the GUID formatter, the       *)
(* scroll-based record decoders (fixed records, the multi_structs!         *)
(* families, MINIDUMP_UTF8_STRING).                                        *)
(*                                                                         *)
(* Every operation of format.rs is a pure function of its arguments, so    *)
(* the state of the model is one input (a GUID or a byte buffer with its   *)
(* byte order), the build the crate was compiled for, and the results of   *)
(* the calls made on that input so far.                                    *)
(***************************************************************************)
EXTENDS Integers, Sequences, FiniteSets, TLC

VARIABLES
    comp,    \* the component under exercise: "guid", "utf8", "records"
    guid,    \* the GUID the formatter is applied to (self)
    src,     \* the byte buffer handed to try_from_ctx (src: &[u8])
    raw,     \* the u32 handed to from_flags / from_u32
    info,    \* the XSTATE_CONFIG_FEATURE_MSC_INFO that is iterated over
    iters,   \* caller -> its XstateFeatureIter, NoIter before iter()
    strings, \* the record of strings set_string is called on (self)
    endian,  \* the scroll::Endian context: "LE" or "BE"
    build,   \* how the crate was built (usize width, overflow checks, scroll)
    out      \* operation name -> result of the call, NoResult before it

vars == <<comp, guid, src, raw, info, iters, strings, endian, build, out>>

-----------------------------------------------------------------------------
(* Integers of the widths the source uses. TLC's integers are 32-bit signed, *)
(* so a u16, u32, u64 or usize value is held as the sequence of its        *)
(* base-256 digits, most significant first, as many as its type has bytes. *)

(* The w-byte integer whose value is n (n below 2^24 here). *)
Num(n, w) ==
    [i \in 1 .. w |->
        IF i = w THEN n % 256
        ELSE IF i = w - 1 THEN (n \div 256) % 256
        ELSE IF i = w - 2 THEN (n \div 65536) % 256
        ELSE 0]

(* Whether d is below 2^24, and then its value as a TLC integer. *)
IsSmall(d) == \A i \in 1 .. Len(d) : i <= Len(d) - 3 => d[i] = 0

RECURSIVE SmallValue(_)
SmallValue(d) ==
    IF Len(d) = 0 THEN 0
    ELSE 256 * SmallValue(SubSeq(d, 1, Len(d) - 1)) + d[Len(d)]

(* d > n for a TLC integer n below 2^24 (a buffer length or offset). *)
GreaterThan(d, n) == IF IsSmall(d) THEN SmallValue(d) > n ELSE TRUE

Reverse(s) == [i \in 1 .. Len(s) |-> s[Len(s) + 1 - i]]

NoResult == [kind |-> "None"]

NoRaw == <<0, 0, 0, 0>>

NoInfo == <<>>

NoIter == [created |-> FALSE]

NoIters == <<>>

NoStrings == <<>>

NoGuid == [data1 |-> <<0, 0, 0, 0>>, data2 |-> <<0, 0>>, data3 |-> <<0, 0>>, data4 |-> <<0, 0, 0, 0, 0, 0, 0, 0>>]

(* The builds: usize is 32 or 64 bits wide, `+` on usize panics on         *)
(* overflow (debug-assertions / overflow-checks) or wraps (release), and   *)
(* the scroll release linked either refuses every read that starts at the  *)
(* end of the buffer (offset >= len: BadOffset) or only those that start   *)
(* beyond it (offset > len).                                               *)
Builds == [usizeBits : {32, 64}, overflowChecks : BOOLEAN, readAtEnd : BOOLEAN]

DefaultBuild == [usizeBits |-> 64, overflowChecks |-> FALSE, readAtEnd |-> FALSE]

-----------------------------------------------------------------------------
(* Identifier formatter: impl fmt::Display for GUID.                       *)

HexLower == <<"0", "1", "2", "3", "4", "5", "6", "7", "8", "9", "a", "b", "c", "d", "e", "f">>

HexUpper == <<"0", "1", "2", "3", "4", "5", "6", "7", "8", "9", "A", "B", "C", "D", "E", "F">>

(* The digits of n in base 16, most significant first, no padding. *)
RECURSIVE HexDigits(_, _)
HexDigits(n, alphabet) ==
    IF Len(n) = 1
    THEN IF n[1] < 16 THEN <<alphabet[n[1] + 1]>>
         ELSE <<alphabet[(n[1] \div 16) + 1], alphabet[(n[1] % 16) + 1]>>
    ELSE IF n[1] = 0 THEN HexDigits(Tail(n), alphabet)
    ELSE HexDigits(<<n[1]>>, alphabet)
         \o [i \in 1 .. 2 * (Len(n) - 1) |->
                LET b == n[1 + ((i + 1) \div 2)]
                IN  alphabet[(IF i % 2 = 1 THEN b \div 16 ELSE b % 16) + 1]]

(* The `0w` flag of a format spec: zeros on the left up to width w; a      *)
(* longer text is left as it is.                                           *)
RECURSIVE PadZero(_, _)
PadZero(s, w) == IF Len(s) >= w THEN s ELSE PadZero(<<"0">> \o s, w)

(* {:x} where {:0wx} was meant: the zero padding is lost. *)
FmtLowerHexNoPad(n, w) == HexDigits(n, HexLower)

(* {:0wx} *)
FmtLowerHex(n, w) == PadZero(HexDigits(n, HexLower), w)

(* {:0wx} where {:0wX} was meant: the letters stay lower-case. *)
FmtUpperHexAsLower(n, w) == PadZero(HexDigits(n, HexLower), w)

(* {:0wX} *)
FmtUpperHex(n, w) == PadZero(HexDigits(n, HexUpper), w)

(* The alternate ('#') branch of fmt. *)
FmtAlternate(self) ==
    FmtUpperHex(self.data1, 8) \o FmtUpperHex(self.data2, 4) \o FmtUpperHex(self.data3, 4)
    \o FmtUpperHex(<<self.data4[1]>>, 2) \o FmtUpperHex(<<self.data4[2]>>, 2)
    \o FmtUpperHex(<<self.data4[3]>>, 2) \o FmtUpperHex(<<self.data4[4]>>, 2)
    \o FmtUpperHex(<<self.data4[5]>>, 2) \o FmtUpperHex(<<self.data4[6]>>, 2)
    \o FmtUpperHex(<<self.data4[7]>>, 2) \o FmtUpperHex(<<self.data4[8]>>, 2)

(* The default branch of fmt. *)
FmtDefault(self) ==
    FmtLowerHex(self.data1, 8) \o <<"-">> \o FmtLowerHex(self.data2, 4) \o <<"-">>
    \o FmtLowerHex(self.data3, 4) \o <<"-">>
    \o FmtLowerHex(<<self.data4[1]>>, 2) \o FmtLowerHex(<<self.data4[2]>>, 2) \o <<"-">>
    \o FmtLowerHex(<<self.data4[3]>>, 2) \o FmtLowerHex(<<self.data4[4]>>, 2)
    \o FmtLowerHex(<<self.data4[5]>>, 2) \o FmtLowerHex(<<self.data4[6]>>, 2)
    \o FmtLowerHex(<<self.data4[7]>>, 2) \o FmtLowerHex(<<self.data4[8]>>, 2)

(* GUID::fmt(&self, f): f.alternate() selects the branch. *)
fmt(self, alternate) == IF alternate THEN FmtAlternate(self) ELSE FmtDefault(self)

(* The GUID of the doc test. *)
DocGuid == [data1 |-> Num(10, 4), data2 |-> Num(11, 2), data3 |-> Num(12, 2), data4 |-> <<1, 2, 3, 4, 5, 6, 7, 8>>]

(* GUID values the formatter is exercised on: every field takes its least  *)
(* and greatest value, the doc test's value, and one with letters.         *)
Data1Values == {Num(0, 4), Num(10, 4), <<222, 173, 190, 239>>, <<255, 255, 255, 255>>}

Data2Values == {Num(0, 2), Num(11, 2), <<171, 205>>, <<255, 255>>}

Data3Values == {Num(0, 2), Num(12, 2), <<18, 52>>, <<255, 255>>}

Data4Values ==
    { <<1, 2, 3, 4, 5, 6, 7, 8>>,
      <<0, 0, 0, 0, 0, 0, 0, 0>>,
      <<255, 255, 255, 255, 255, 255, 255, 255>>,
      <<171, 12, 0, 239, 16, 9, 160, 254>> }

GuidValues == [data1 : Data1Values, data2 : Data2Values, data3 : Data3Values, data4 : Data4Values]

GuidOps == {"to_string", "format_alternate"}

InitGuid ==
    /\ comp = "guid"
    /\ guid \in GuidValues
    /\ src = <<>>
    /\ endian = "LE"
    /\ raw = NoRaw
    /\ info = NoInfo /\ iters = NoIters /\ strings = NoStrings
    /\ build = DefaultBuild
    /\ out = [o \in GuidOps |-> NoResult]

(* guid.to_string(): Display with the default flags. *)
to_string ==
    /\ comp = "guid"
    /\ out["to_string"] = NoResult
    /\ out' = [out EXCEPT !["to_string"] = [kind |-> "Ok", val |-> fmt(guid, FALSE)]]
    /\ UNCHANGED <<comp, guid, src, raw, info, iters, strings, endian, build>>

(* format!("{:#}", guid): Display with the alternate flag. *)
format_alternate ==
    /\ comp = "guid"
    /\ out["format_alternate"] = NoResult
    /\ out' = [out EXCEPT !["format_alternate"] = [kind |-> "Ok", val |-> fmt(guid, TRUE)]]
    /\ UNCHANGED <<comp, guid, src, raw, info, iters, strings, endian, build>>

NextGuid == to_string \/ format_alternate

SpecGuid == InitGuid /\ [][NextGuid]_vars

-----------------------------------------------------------------------------
(* Primitive codec: scroll's Pread on &[u8], as format.rs calls it.        *)

Ok(v, n) == [kind |-> "Ok", val |-> v, used |-> n]

Err(e) == [kind |-> "Err", err |-> e]

Panic(msg) == [kind |-> "Panic", msg |-> msg]

(* scroll::Error::BadOffset(offset) *)
BadOffset(o) == [error |-> "BadOffset", offset |-> o]

(* scroll::Error::TooBig { size, len } *)
TooBig(size, len) == [error |-> "TooBig", size |-> size, len |-> len]

(* scroll::Error::Custom(message) *)
Custom(msg) == [error |-> "Custom", msg |-> msg]

(* The integer that w bytes of the buffer encode under the byte order. *)
FromBytes(bytes, e) == IF e = "LE" THEN Reverse(bytes) ELSE bytes

(* The bytes that encode integer d under the byte order. *)
ToBytes(d, e) == IF e = "LE" THEN Reverse(d) ELSE d

(* The offset check gread_with makes before it reads: a read may not start *)
(* at the end of the buffer (offset >= len), or, with the later scroll,    *)
(* beyond it (offset > len).                                               *)
OffsetRefused(o, len, b) == IF b.readAtEnd THEN o > len ELSE o >= len

(* The record types of format.rs, as the derive(Pread) expansion walks     *)
(* them: an integer of w bytes, an array of n elements, a struct of named  *)
(* fields read in declaration order.                                       *)
IntT(w) == [tag |-> "int", width |-> w]

ArrayT(t, n) == [tag |-> "array", elem |-> t, count |-> n]

StructT(fs) == [tag |-> "struct", fields |-> fs]

Field(name, t) == [name |-> name, type |-> t]

u16 == IntT(2)

u32 == IntT(4)

i32 == IntT(4)

u64 == IntT(8)

(* SizeWith: the number of bytes a value of the type takes. *)
RECURSIVE SizeOf(_)
RECURSIVE SizeOfFields(_, _)
SizeOf(t) ==
    CASE t.tag = "int" -> t.width
      [] t.tag = "array" -> t.count * SizeOf(t.elem)
      [] t.tag = "struct" -> SizeOfFields(t.fields, 1)

SizeOfFields(fs, i) ==
    IF i > Len(fs) THEN 0 ELSE SizeOf(fs[i].type) + SizeOfFields(fs, i + 1)

(* An integer read that takes the bytes that are left and zeros for the   *)
(* rest, where TooBig was meant.                                           *)
ReadIntZeroFill(w, s, base, e) ==
    Ok(FromBytes([i \in 1 .. w |-> IF base + i <= Len(s) THEN s[base + i] ELSE 0], e), w)

(* try_from_ctx of an integer of w bytes on the slice s[base+1 ..]: TooBig *)
(* when fewer than w bytes are left.                                       *)
ReadInt(w, s, base, e) ==
    IF w > Len(s) - base THEN Err(TooBig(w, Len(s) - base))
    ELSE Ok(FromBytes(SubSeq(s, base + 1, base + w), e), w)

(* try_from_ctx of a type on the slice s[base+1 ..], and gread_with, which *)
(* checks the offset, reads at s[base+o+1 ..] and advances the offset by   *)
(* what was read. A struct reads its fields in order from offset 0 of its  *)
(* own slice and returns the first error (the `?`); an array is filled by  *)
(* gread_inout_with, one gread_with per element at the running offset,     *)
(* which stops at the first element that fails: every element type has a   *)
(* fixed size w, so that is the first element for which w bytes are not    *)
(* left.                                                                   *)
RECURSIVE ReadFields(_, _, _, _, _, _, _, _)
RECURSIVE Gread(_, _, _, _, _, _)
(* A struct read that stops at the size its first field, size_of_info,     *)
(* declares: the fields at or beyond that offset are left out.             *)
ReadFieldsUpToDeclared(fs, i, s, base, o, acc, e, b) ==
    IF \/ i > Len(fs)
       \/ /\ i > 1 /\ fs[1].name = "size_of_info" /\ base = 0
          /\ ~GreaterThan(acc["size_of_info"], o)
    THEN Ok(acc, o)
    ELSE LET r == Gread(fs[i].type, s, base, o, e, b)
         IN  IF r.kind # "Ok" THEN r
             ELSE ReadFields(fs, i + 1, s, base, o + r.used,
                             acc @@ (fs[i].name :> r.val), e, b)

RECURSIVE TryFromCtx(_, _, _, _, _)
Gread(t, s, base, o, e, b) ==
    IF OffsetRefused(o, Len(s) - base, b) THEN Err(BadOffset(o))
    ELSE TryFromCtx(t, s, base + o, e, b)

ReadFields(fs, i, s, base, o, acc, e, b) ==
    IF i > Len(fs) THEN Ok(acc, o)
    ELSE LET r == Gread(fs[i].type, s, base, o, e, b)
         IN  IF r.kind # "Ok" THEN r
             ELSE ReadFields(fs, i + 1, s, base, o + r.used,
                             acc @@ (fs[i].name :> r.val), e, b)

TryFromCtx(t, s, base, e, b) ==
    CASE t.tag = "int" -> ReadInt(t.width, s, base, e)
      [] t.tag = "array" ->
            LET w == SizeOf(t.elem)
                fit == (Len(s) - base) \div w
            IN  IF fit >= t.count
                THEN Ok([k \in 1 .. t.count |-> Gread(t.elem, s, base, (k - 1) * w, e, b).val],
                        t.count * w)
                ELSE Gread(t.elem, s, base, fit * w, e, b)
      [] t.tag = "struct" -> ReadFields(t.fields, 1, s, base, 0, <<>>, e, b)

(* src.pread_with::<T>(0, endian) of a whole buffer, as the callers of the *)
(* record types do: the offset check, then try_from_ctx.                   *)
Pread(t, s, e, b) == Gread(t, s, 0, 0, e, b)

-----------------------------------------------------------------------------
(* Variable-length record decoder: MINIDUMP_UTF8_STRING.                   *)

(* `n as usize`: zero-extended to the width of usize. *)
AsUsize(d, b) == [i \in 1 .. (b.usizeBits \div 8) - Len(d) |-> 0] \o d

(* `length as usize` where `length as usize + 1` was meant: the NUL is not *)
(* counted.                                                                *)
SuccessorForgotten(d) == d

(* d + 1 on digits, the carry out dropped. *)
RECURSIVE Successor(_)
Successor(d) ==
    IF Len(d) = 0 THEN <<>>
    ELSE IF d[Len(d)] < 255 THEN [d EXCEPT ![Len(d)] = d[Len(d)] + 1]
    ELSE Successor(SubSeq(d, 1, Len(d) - 1)) \o <<0>>

IsMax(d) == \A i \in 1 .. Len(d) : d[i] = 255

NulMessage == "Minidump String does not end with NUL byte"

(* data.contains(&0) where data.ends_with(&[0]) was meant. *)
ContainsNul(data) == \E i \in 1 .. Len(data) : data[i] = 0

(* The check for the terminator left out. *)
EndsWithNulUnchecked(data) == TRUE

(* data.ends_with(&[0]) *)
EndsWithNul(data) == Len(data) >= 1 /\ data[Len(data)] = 0

(* A read that hands back the bytes that are left when fewer than `size`  *)
(* are: the clamping the decoder must not do.                              *)
GreadBytesClamped(s, o, size, b) ==
    IF OffsetRefused(o, Len(s), b) THEN Err(BadOffset(o))
    ELSE IF GreaterThan(size, Len(s) - o) THEN Ok(SubSeq(s, o + 1, Len(s)), Len(s) - o)
    ELSE Ok(SubSeq(s, o + 1, o + SmallValue(size)), SmallValue(size))

(* <&[u8] as TryFromCtx<usize>>::try_from_ctx through gread_with: `size`   *)
(* bytes at the offset, or TooBig when fewer are left.                     *)
GreadBytes(s, o, size, b) ==
    IF OffsetRefused(o, Len(s), b) THEN Err(BadOffset(o))
    ELSE IF GreaterThan(size, Len(s) - o) THEN Err(TooBig(size, Len(s) - o))
    ELSE Ok(SubSeq(s, o + 1, o + SmallValue(size)), SmallValue(size))

(* A decoder that hands back the fixed part with the error when the       *)
(* payload fails: the length survives the failure.                         *)
Utf8TryFromCtxPartial(s, e, b) ==
    LET len == Gread(u32, s, 0, 0, e, b)
    IN  IF len.kind # "Ok" THEN len
        ELSE LET length == len.val
                 wide == AsUsize(length, b)
                 partial == [length |-> length]
             IN  IF IsMax(wide) /\ b.overflowChecks
                 THEN Panic("attempt to add with overflow")
                 ELSE LET data == GreadBytes(s, len.used, Successor(wide), b)
                      IN  IF data.kind # "Ok" THEN data @@ [val |-> partial]
                          ELSE IF ~EndsWithNul(data.val)
                               THEN Err(Custom(NulMessage)) @@ [val |-> partial]
                          ELSE Ok([length |-> length, buffer |-> data.val],
                                  len.used + data.used)

(* MINIDUMP_UTF8_STRING::try_from_ctx *)
Utf8TryFromCtx(s, e, b) ==
    LET len == Gread(u32, s, 0, 0, e, b)
    IN  IF len.kind # "Ok" THEN len
        ELSE LET length == len.val
                 wide == AsUsize(length, b)
             IN  IF IsMax(wide) /\ b.overflowChecks
                 THEN Panic("attempt to add with overflow")
                 ELSE LET data == GreadBytes(s, len.used, Successor(wide), b)
                      IN  IF data.kind # "Ok" THEN data
                          ELSE IF ~EndsWithNul(data.val) THEN Err(Custom(NulMessage))
                          ELSE Ok([length |-> length, buffer |-> data.val],
                                  len.used + data.used)

(* The bytes a decoder is exercised on: every buffer over a three-byte     *)
(* alphabet up to MaxLen bytes, and the records of the "hello" scenario.   *)
MaxLen == 7

ByteAlphabet == {0, 1, 255}

SeqsUpTo(S, n) == UNION {[1 .. k -> S] : k \in 0 .. n}

Hello == <<104, 101, 108, 108, 111>>

HelloBuffers ==
    {ToBytes(Num(5, 4), e) \o Hello \o t : e \in {"LE", "BE"}, t \in {<<>>, <<0>>, <<33>>, <<0, 7>>}}

Utf8Buffers == SeqsUpTo(ByteAlphabet, MaxLen) \cup HelloBuffers

InitUtf8 ==
    /\ comp = "utf8"
    /\ guid = NoGuid
    /\ src \in Utf8Buffers
    /\ raw = NoRaw
    /\ info = NoInfo /\ iters = NoIters /\ strings = NoStrings
    /\ endian \in {"LE", "BE"}
    /\ build \in Builds
    /\ out = [o \in {"MINIDUMP_UTF8_STRING"} |-> NoResult]

(* src.pread_with::<MINIDUMP_UTF8_STRING>(0, endian) *)
DecodeUtf8 ==
    /\ comp = "utf8"
    /\ out["MINIDUMP_UTF8_STRING"] = NoResult
    /\ out' = [out EXCEPT !["MINIDUMP_UTF8_STRING"] = Utf8TryFromCtx(src, endian, build)]
    /\ UNCHANGED <<comp, guid, src, raw, info, iters, strings, endian, build>>

NextUtf8 == DecodeUtf8

SpecUtf8 == InitUtf8 /\ [][NextUtf8]_vars

-----------------------------------------------------------------------------
(* Fixed record decoder and the versioned families: derive(Pread) structs. *)

(* MINIDUMP_HEADER with `flags: u32` where `flags: u64` was meant. *)
MINIDUMP_HEADER_Flags32 ==
    StructT(<< Field("signature", u32), Field("version", u32),
               Field("stream_count", u32), Field("stream_directory_rva", u32),
               Field("checksum", u32), Field("time_date_stamp", u32),
               Field("flags", u32) >>)

(* pub struct MINIDUMP_HEADER *)
MINIDUMP_HEADER ==
    StructT(<< Field("signature", u32), Field("version", u32),
               Field("stream_count", u32), Field("stream_directory_rva", u32),
               Field("checksum", u32), Field("time_date_stamp", u32),
               Field("flags", u64) >>)

(* pub const MINIDUMP_SIGNATURE: u32 = 0x504d444d *)
MINIDUMP_SIGNATURE == <<80, 77, 68, 77>>

(* pub const MINIDUMP_VERSION: u32 = 42899 *)
MINIDUMP_VERSION == Num(42899, 4)

(* pub struct SYSTEMTIME *)
SYSTEMTIME ==
    StructT(<< Field("year", u16), Field("month", u16), Field("day_of_week", u16),
               Field("day", u16), Field("hour", u16), Field("minute", u16),
               Field("second", u16), Field("milliseconds", u16) >>)

(* pub struct TIME_ZONE_INFORMATION *)
TIME_ZONE_INFORMATION ==
    StructT(<< Field("bias", i32), Field("standard_name", ArrayT(u16, 32)),
               Field("standard_date", SYSTEMTIME), Field("standard_bias", i32),
               Field("daylight_name", ArrayT(u16, 32)),
               Field("daylight_date", SYSTEMTIME), Field("daylight_bias", i32) >>)

(* pub struct XSTATE_FEATURE *)
XSTATE_FEATURE == StructT(<< Field("offset", u32), Field("size", u32) >>)

(* pub struct XSTATE_CONFIG_FEATURE_MSC_INFO *)
XSTATE_CONFIG_FEATURE_MSC_INFO ==
    StructT(<< Field("size_of_info", u32), Field("context_size", u32),
               Field("enabled_features", u64),
               Field("features", ArrayT(XSTATE_FEATURE, 64)) >>)

(* The field blocks handed to multi_structs! for the misc info family, one *)
(* block per `pub struct` of the invocation, in its order.                 *)
MiscInfoBlocks ==
    << << Field("size_of_info", u32), Field("flags1", u32), Field("process_id", u32),
          Field("process_create_time", u32), Field("process_user_time", u32),
          Field("process_kernel_time", u32) >>,
       << Field("processor_max_mhz", u32), Field("processor_current_mhz", u32),
          Field("processor_mhz_limit", u32), Field("processor_max_idle_state", u32),
          Field("processor_current_idle_state", u32) >>,
       << Field("process_integrity_level", u32), Field("process_execute_flags", u32),
          Field("protected_process", u32), Field("time_zone_id", u32),
          Field("time_zone", TIME_ZONE_INFORMATION) >>,
       << Field("build_string", ArrayT(u16, 260)), Field("dbg_bld_str", ArrayT(u16, 40)) >>,
       << Field("xstate_data", XSTATE_CONFIG_FEATURE_MSC_INFO),
          Field("process_cookie", u32) >> >>

MiscInfoNames ==
    << "MINIDUMP_MISC_INFO", "MINIDUMP_MISC_INFO_2", "MINIDUMP_MISC_INFO_3",
       "MINIDUMP_MISC_INFO_4", "MINIDUMP_MISC_INFO_5" >>

(* The field blocks of the mac crash info record family. *)
MacCrashInfoBlocks ==
    << << Field("stream_type", u64), Field("version", u64) >>,
       << Field("thread", u64), Field("dialog_mode", u64) >>,
       << Field("abort_cause", u64) >> >>

MacCrashInfoNames ==
    << "MINIDUMP_MAC_CRASH_INFO_RECORD", "MINIDUMP_MAC_CRASH_INFO_RECORD_4",
       "MINIDUMP_MAC_CRASH_INFO_RECORD_5" >>

(* multi_structs! with `$($cur)* $($prev)*` where `$($prev)* $($cur)*` was *)
(* meant: a version's own fields come before those it inherits.            *)
RECURSIVE MultiStructs(_, _)
MultiStructsCurFirst(blocks, k) ==
    IF k = 0 THEN <<>> ELSE blocks[k] \o MultiStructs(blocks, k - 1)

(* multi_structs!: the k-th struct declared has the fields of the structs  *)
(* before it ($prev), then its own ($cur).                                 *)
MultiStructs(blocks, k) ==
    IF k = 0 THEN <<>> ELSE MultiStructs(blocks, k - 1) \o blocks[k]

Families == {"MINIDUMP_HEADER", "MINIDUMP_MISC_INFO", "MINIDUMP_MAC_CRASH_INFO_RECORD"}

(* The structs of a family, oldest version first. *)
FamilyNames(f) ==
    CASE f = "MINIDUMP_HEADER" -> <<"MINIDUMP_HEADER">>
      [] f = "MINIDUMP_MISC_INFO" -> MiscInfoNames
      [] f = "MINIDUMP_MAC_CRASH_INFO_RECORD" -> MacCrashInfoNames

(* The k-th struct of a family as a type. *)
FamilyType(f, k) ==
    CASE f = "MINIDUMP_HEADER" -> MINIDUMP_HEADER
      [] f = "MINIDUMP_MISC_INFO" -> StructT(MultiStructs(MiscInfoBlocks, k))
      [] f = "MINIDUMP_MAC_CRASH_INFO_RECORD" -> StructT(MultiStructs(MacCrashInfoBlocks, k))

Versions(f) == 1 .. Len(FamilyNames(f))

(* The buffers the record decoders are exercised on. Byte i of a pattern   *)
(* buffer depends on i and on a seed, so that fields at different offsets  *)
(* hold different values; the lengths lie around each struct's size; for   *)
(* the misc info family the first four bytes hold a declared size_of_info, *)
(* the size of one of the versions.                                        *)
RecordSlack == 1

MaxCalls == 2

PatternByte(seed, i) == (i * (2 * seed + 5) + (i \div 256) + seed) % 256

Pattern(seed, n) == [i \in 1 .. n |-> PatternByte(seed, i - 1)]

Overwrite(buf, prefix) ==
    IF Len(buf) < Len(prefix) THEN buf
    ELSE prefix \o SubSeq(buf, Len(prefix) + 1, Len(buf))

FamilySizes(f) == {SizeOf(FamilyType(f, k)) : k \in Versions(f)}

RecordLengths(f) ==
    {0} \cup {n \in {sz + d : sz \in FamilySizes(f), d \in (0 - RecordSlack) .. RecordSlack} : n >= 0}

(* The header of the spec's first scenario, encoded under byte order e. *)
ScenarioHeader(e) ==
    ToBytes(MINIDUMP_SIGNATURE, e) \o ToBytes(MINIDUMP_VERSION, e) \o ToBytes(Num(1, 4), e)
    \o ToBytes(Num(32, 4), e) \o ToBytes(Num(0, 4), e) \o ToBytes(Num(0, 4), e)
    \o ToBytes(Num(0, 8), e)

RecordBuffers(f, e) ==
    CASE f = "MINIDUMP_HEADER" ->
            {Pattern(seed, n) : seed \in {1, 2, 3}, n \in RecordLengths(f)}
            \cup {ScenarioHeader(e) \o t : t \in {<<>>, <<9>>}}
            \cup {SubSeq(ScenarioHeader(e), 1, 31)}
      [] f = "MINIDUMP_MISC_INFO" ->
            {Overwrite(Pattern(1, n), ToBytes(Num(sz, 4), e)) :
                n \in RecordLengths(f), sz \in FamilySizes(f)}
      [] f = "MINIDUMP_MAC_CRASH_INFO_RECORD" ->
            {Pattern(seed, n) : seed \in {1, 2, 3}, n \in RecordLengths(f)}

(* The record decoders do no usize arithmetic: what varies is the scroll   *)
(* release.                                                                *)
RecordBuilds == {b \in Builds : b.usizeBits = 64 /\ ~b.overflowChecks}

Decoded == {n \in DOMAIN out : out[n] # NoResult}

InitRecords ==
    /\ comp \in Families
    /\ guid = NoGuid
    /\ endian \in {"LE", "BE"}
    /\ src \in RecordBuffers(comp, endian)
    /\ raw = NoRaw
    /\ info = NoInfo /\ iters = NoIters /\ strings = NoStrings
    /\ build \in RecordBuilds
    /\ out = [n \in {FamilyNames(comp)[k] : k \in Versions(comp)} |-> NoResult]

(* src.pread_with::<T>(0, endian) for the k-th struct T of the family. *)
DecodeRecord ==
    /\ comp \in Families
    /\ Cardinality(Decoded) < MaxCalls
    /\ \E k \in Versions(comp) :
          /\ out[FamilyNames(comp)[k]] = NoResult
          /\ out' = [out EXCEPT ![FamilyNames(comp)[k]] =
                        Pread(FamilyType(comp, k), src, endian, build)]
    /\ UNCHANGED <<comp, guid, src, raw, info, iters, strings, endian, build>>

NextRecords == DecodeRecord

SpecRecords == InitRecords /\ [][NextRecords]_vars

-----------------------------------------------------------------------------
(* Architecture selector: ContextFlagsCpu and ContextFlagsCpu::from_flags. *)

(* a & b on bytes, and on integers of the same width, digit by digit. *)
RECURSIVE BitAndByte(_, _, _)
BitAndByte(a, b, n) ==
    IF n = 0 THEN 0
    ELSE (a % 2) * (b % 2) + 2 * BitAndByte(a \div 2, b \div 2, n - 1)

RECURSIVE BitOrByte(_, _, _)
BitOrByte(a, b, n) ==
    IF n = 0 THEN 0
    ELSE (IF a % 2 = 1 \/ b % 2 = 1 THEN 1 ELSE 0) + 2 * BitOrByte(a \div 2, b \div 2, n - 1)

BitAnd(x, y) == [i \in 1 .. Len(x) |-> BitAndByte(x[i], y[i], 8)]

BitOr(x, y) == [i \in 1 .. Len(x) |-> BitOrByte(x[i], y[i], 8)]

(* No mask at all, where 0xffffff00 was meant. *)
CONTEXT_CPU_MASK_AllBits == <<255, 255, 255, 255>>

(* pub const CONTEXT_CPU_MASK: u32 = 0xffffff00 *)
CONTEXT_CPU_MASK == <<255, 255, 255, 0>>

(* The constants of ContextFlagsCpu with CONTEXT_X86 and CONTEXT_AMD64     *)
(* holding each other's value.                                             *)
ContextFlagsCpuSwapped ==
    [ CONTEXT_IA64 |-> <<0, 8, 0, 0>>, CONTEXT_SHX |-> <<0, 0, 0, 192>>,
      CONTEXT_ARM_OLD |-> <<0, 0, 0, 64>>, CONTEXT_ALPHA |-> <<0, 2, 0, 0>>,
      CONTEXT_AMD64 |-> <<0, 1, 0, 0>>, CONTEXT_ARM |-> <<64, 0, 0, 0>>,
      CONTEXT_ARM64 |-> <<0, 64, 0, 0>>, CONTEXT_ARM64_OLD |-> <<128, 0, 0, 0>>,
      CONTEXT_MIPS |-> <<0, 4, 0, 0>>, CONTEXT_MIPS64 |-> <<0, 8, 0, 0>>,
      CONTEXT_PPC |-> <<32, 0, 0, 0>>, CONTEXT_PPC64 |-> <<1, 0, 0, 0>>,
      CONTEXT_SPARC |-> <<16, 0, 0, 0>>, CONTEXT_X86 |-> <<0, 16, 0, 0>> ]

(* bitflags! { pub struct ContextFlagsCpu: u32 { .. } }: the declared      *)
(* constants and their bits.                                               *)
ContextFlagsCpu ==
    [ CONTEXT_IA64 |-> <<0, 8, 0, 0>>, CONTEXT_SHX |-> <<0, 0, 0, 192>>,
      CONTEXT_ARM_OLD |-> <<0, 0, 0, 64>>, CONTEXT_ALPHA |-> <<0, 2, 0, 0>>,
      CONTEXT_AMD64 |-> <<0, 16, 0, 0>>, CONTEXT_ARM |-> <<64, 0, 0, 0>>,
      CONTEXT_ARM64 |-> <<0, 64, 0, 0>>, CONTEXT_ARM64_OLD |-> <<128, 0, 0, 0>>,
      CONTEXT_MIPS |-> <<0, 4, 0, 0>>, CONTEXT_MIPS64 |-> <<0, 8, 0, 0>>,
      CONTEXT_PPC |-> <<32, 0, 0, 0>>, CONTEXT_PPC64 |-> <<1, 0, 0, 0>>,
      CONTEXT_SPARC |-> <<16, 0, 0, 0>>, CONTEXT_X86 |-> <<0, 1, 0, 0>> ]

(* ContextFlagsCpu::empty().bits *)
empty == <<0, 0, 0, 0>>

(* Every bit counted as declared. *)
allOnes == <<255, 255, 255, 255>>

(* ContextFlagsCpu::all().bits: the union of the declared constants. *)
RECURSIVE UnionOf(_)
UnionOf(S) ==
    IF S = {} THEN empty
    ELSE LET c == CHOOSE c \in S : TRUE IN BitOr(c, UnionOf(S \ {c}))

all == UnionOf({ContextFlagsCpu[n] : n \in DOMAIN ContextFlagsCpu})

(* from_bits(bits).unwrap_or(empty()) where from_bits_truncate was meant:  *)
(* a word with an undeclared bit gives the empty set.                      *)
from_bits_or_empty(bits) == IF BitAnd(bits, all) = bits THEN bits ELSE empty

(* ContextFlagsCpu::from_bits_truncate(bits): the undeclared bits dropped. *)
from_bits_truncate(bits) == BitAnd(bits, all)

(* ContextFlagsCpu::from_flags(flags) *)
from_flags(flags) == from_bits_truncate(BitAnd(flags, CONTEXT_CPU_MASK))

(* The flag words the selector is exercised on: each of the upper three    *)
(* bytes holds no bit, one declared bit, two, an undeclared one or all of  *)
(* them, with a low byte that holds no bit, the bits of CONTEXT_ARM_OLD or *)
(* CONTEXT_SHX, others or all; and 0x00010000 with every low byte.         *)
FlagByte1 == {0, 1, 2, 16, 32, 64, 128, 255}

FlagByte2 == {0, 1, 2, 4, 8, 16, 17, 32, 64, 255}

FlagByte3 == {0, 1, 255}

FlagByte4 == {0, 1, 63, 64, 192, 255}

FlagWords ==
    {<<a, b, c, d>> : a \in FlagByte1, b \in FlagByte2, c \in FlagByte3, d \in FlagByte4}
    \cup {<<0, 1, 0, d>> : d \in 0 .. 255}

InitFlags ==
    /\ comp = "ContextFlagsCpu"
    /\ guid = NoGuid
    /\ src = <<>>
    /\ raw \in FlagWords
    /\ info = NoInfo /\ iters = NoIters /\ strings = NoStrings
    /\ endian = "LE"
    /\ build = DefaultBuild
    /\ out = [o \in {"from_flags", "from_flags_masked"} |-> NoResult]

(* ContextFlagsCpu::from_flags(raw) *)
FromFlags ==
    /\ comp = "ContextFlagsCpu"
    /\ out["from_flags"] = NoResult
    /\ out' = [out EXCEPT !["from_flags"] = [kind |-> "Ok", val |-> from_flags(raw)]]
    /\ UNCHANGED <<comp, guid, src, raw, info, iters, strings, endian, build>>

(* ContextFlagsCpu::from_flags(raw & 0xffffff00): the caller has cleared   *)
(* the low 8 bits.                                                         *)
FromFlagsMasked ==
    /\ comp = "ContextFlagsCpu"
    /\ out["from_flags_masked"] = NoResult
    /\ out' = [out EXCEPT !["from_flags_masked"] =
                  [kind |-> "Ok", val |-> from_flags(BitAnd(raw, <<255, 255, 255, 0>>))]]
    /\ UNCHANGED <<comp, guid, src, raw, info, iters, strings, endian, build>>

NextFlags == FromFlags \/ FromFlagsMasked

SpecFlags == InitFlags /\ [][NextFlags]_vars

-----------------------------------------------------------------------------
(* Symbolic enumeration codec: the Primitive-derived enumerations, and the *)
(* stream directory entry whose stream_type they name.                     *)

(* Option<T> *)
Some(v) == [some |-> TRUE, val |-> v]

None == [some |-> FALSE]

(* pub enum MINIDUMP_STREAM_TYPE: the variants and their discriminants, in *)
(* declaration order.                                                      *)
MINIDUMP_STREAM_TYPE ==
    << <<"UnusedStream", <<0, 0, 0, 0>>>>, <<"ReservedStream0", <<0, 0, 0, 1>>>>,
       <<"ReservedStream1", <<0, 0, 0, 2>>>>, <<"ThreadListStream", <<0, 0, 0, 3>>>>,
       <<"ModuleListStream", <<0, 0, 0, 4>>>>, <<"MemoryListStream", <<0, 0, 0, 5>>>>,
       <<"ExceptionStream", <<0, 0, 0, 6>>>>, <<"SystemInfoStream", <<0, 0, 0, 7>>>>,
       <<"ThreadExListStream", <<0, 0, 0, 8>>>>, <<"Memory64ListStream", <<0, 0, 0, 9>>>>,
       <<"CommentStreamA", <<0, 0, 0, 10>>>>, <<"CommentStreamW", <<0, 0, 0, 11>>>>,
       <<"HandleDataStream", <<0, 0, 0, 12>>>>, <<"FunctionTable", <<0, 0, 0, 13>>>>,
       <<"UnloadedModuleListStream", <<0, 0, 0, 14>>>>, <<"MiscInfoStream", <<0, 0, 0, 15>>>>,
       <<"MemoryInfoListStream", <<0, 0, 0, 16>>>>, <<"ThreadInfoListStream", <<0, 0, 0, 17>>>>,
       <<"HandleOperationListStream", <<0, 0, 0, 18>>>>, <<"TokenStream", <<0, 0, 0, 19>>>>,
       <<"JavaScriptDataStream", <<0, 0, 0, 20>>>>, <<"SystemMemoryInfoStream", <<0, 0, 0, 21>>>>,
       <<"ProcessVmCountersStream", <<0, 0, 0, 22>>>>, <<"IptTraceStream", <<0, 0, 0, 23>>>>,
       <<"ThreadNamesStream", <<0, 0, 0, 24>>>>, <<"ceStreamNull", <<0, 0, 0, 25>>>>,
       <<"ceStreamSystemInfo", <<0, 0, 0, 26>>>>, <<"ceStreamException", <<0, 0, 0, 27>>>>,
       <<"ceStreamModuleList", <<0, 0, 0, 28>>>>, <<"ceStreamProcessList", <<0, 0, 0, 29>>>>,
       <<"ceStreamThreadList", <<0, 0, 0, 30>>>>, <<"ceStreamThreadContextList", <<0, 0, 0, 31>>>>,
       <<"ceStreamThreadCallStackList", <<0, 0, 0, 32>>>>,
       <<"ceStreamMemoryVirtualList", <<0, 0, 0, 33>>>>,
       <<"ceStreamMemoryPhysicalList", <<0, 0, 0, 34>>>>,
       <<"ceStreamBucketParameters", <<0, 0, 0, 35>>>>,
       <<"ceStreamProcessModuleMap", <<0, 0, 0, 36>>>>,
       <<"ceStreamDiagnosisList", <<0, 0, 0, 37>>>>, <<"LastReservedStream", <<0, 0, 255, 255>>>>,
       <<"BreakpadInfoStream", <<71, 103, 0, 1>>>>, <<"AssertionInfoStream", <<71, 103, 0, 2>>>>,
       <<"LinuxCpuInfo", <<71, 103, 0, 3>>>>, <<"LinuxProcStatus", <<71, 103, 0, 4>>>>,
       <<"LinuxLsbRelease", <<71, 103, 0, 5>>>>, <<"LinuxCmdLine", <<71, 103, 0, 6>>>>,
       <<"LinuxEnviron", <<71, 103, 0, 7>>>>, <<"LinuxAuxv", <<71, 103, 0, 8>>>>,
       <<"LinuxMaps", <<71, 103, 0, 9>>>>, <<"LinuxDsoDebug", <<71, 103, 0, 10>>>>,
       <<"CrashpadInfoStream", <<67, 80, 0, 1>>>>,
       <<"MozMacosCrashInfoStream", <<77, 122, 0, 1>>>> >>

(* pub enum CvSignature *)
CvSignature ==
    << <<"Pdb20", <<48, 49, 66, 78>>>>, <<"Pdb70", <<83, 68, 83, 82>>>>,
       <<"Elf", <<66, 112, 69, 76>>>>, <<"Cv41", <<57, 48, 66, 78>>>>,
       <<"Cv50", <<49, 49, 66, 78>>>> >>

(* pub enum ExceptionCodeMacSoftwareType *)
ExceptionCodeMacSoftwareType ==
    << <<"SIGABRT", <<0, 1, 0, 2>>>>, <<"UNCAUGHT_NS_EXCEPTION", <<222, 173, 192, 222>>>>,
       <<"EXC_PPC_TRAP", <<0, 0, 0, 1>>>>, <<"EXC_PPC_MIGRATE", <<0, 1, 1, 0>>>> >>

Enums ==
    [ MINIDUMP_STREAM_TYPE |-> MINIDUMP_STREAM_TYPE, CvSignature |-> CvSignature,
      ExceptionCodeMacSoftwareType |-> ExceptionCodeMacSoftwareType ]

Variants(enum) == {enum[i][1] : i \in 1 .. Len(enum)}

(* derive(Primitive): the arms of the generated match, `x if x == V as     *)
(* i64 => Some(V)` for each variant V in declaration order, then `_ =>     *)
(* None`; from_u32 widens its argument and goes through them. Here the     *)
(* arms compare the low 16 bits only, as a match on `n as u16` would.      *)
from_u32_Low16(enum, n) ==
    LET hits == {i \in 1 .. Len(enum) : <<enum[i][2][3], enum[i][2][4]>> = <<n[3], n[4]>>}
    IN  IF hits = {} THEN None
        ELSE Some(enum[CHOOSE i \in hits : \A j \in hits : i <= j][1])

(* <enum as FromPrimitive>::from_u32(n) *)
from_u32(enum, n) ==
    LET hits == {i \in 1 .. Len(enum) : enum[i][2] = n}
    IN  IF hits = {} THEN None
        ELSE Some(enum[CHOOSE i \in hits : \A j \in hits : i <= j][1])

(* `ty as u16 as u32` where `ty as u32` was meant. *)
u32_from_Low16(enum, ty) ==
    LET d == enum[CHOOSE i \in 1 .. Len(enum) : enum[i][1] = ty][2]
    IN  <<0, 0, d[3], d[4]>>

(* impl From<MINIDUMP_STREAM_TYPE> for u32: `ty as u32`, the discriminant  *)
(* of the variant.                                                         *)
u32_from(enum, ty) == enum[CHOOSE i \in 1 .. Len(enum) : enum[i][1] = ty][2]

(* pub struct MINIDUMP_LOCATION_DESCRIPTOR (RVA is u32) *)
MINIDUMP_LOCATION_DESCRIPTOR == StructT(<< Field("data_size", u32), Field("rva", u32) >>)

(* pub struct MINIDUMP_DIRECTORY *)
MINIDUMP_DIRECTORY ==
    StructT(<< Field("stream_type", u32), Field("location", MINIDUMP_LOCATION_DESCRIPTOR) >>)

(* The raw values the lookup is exercised on: every discriminant of the    *)
(* enumeration, the values next to them, and values far from all of them   *)
(* (a discriminant with its bytes swapped, the greatest u32).              *)
Neighbours(d) ==
    {[d EXCEPT ![4] = (d[4] + 1) % 256], [d EXCEPT ![4] = (d[4] + 255) % 256],
     [d EXCEPT ![2] = (d[2] + 1) % 256], Reverse(d)}

RawValues(enum) ==
    LET declared == {enum[i][2] : i \in 1 .. Len(enum)}
    IN  declared \cup UNION {Neighbours(d) : d \in declared}
        \cup {<<0, 0, 128, 0>>, <<0, 1, 0, 0>>, <<128, 0, 0, 0>>, <<255, 255, 255, 255>>}

(* A directory entry with the stream type `n`, encoded under byte order e, *)
(* with what follows it in the directory.                                  *)
DirectoryEntry(n, e) == ToBytes(n, e) \o ToBytes(Num(1364, 4), e) \o ToBytes(<<0, 1, 2, 64>>, e)

DirectoryBuffers(n, e) == {DirectoryEntry(n, e) \o t : t \in {<<>>, <<7>>}}

SymbolOps == {"MINIDUMP_DIRECTORY", "from_u32", "u32::from"}

InitSymbols ==
    /\ comp \in DOMAIN Enums
    /\ guid = NoGuid
    /\ raw \in RawValues(Enums[comp])
    /\ info = NoInfo /\ iters = NoIters /\ strings = NoStrings
    /\ endian \in {"LE", "BE"}
    /\ src \in DirectoryBuffers(raw, endian)
    /\ build \in RecordBuilds
    /\ out = [o \in SymbolOps |-> NoResult]

(* src.pread_with::<MINIDUMP_DIRECTORY>(0, endian) *)
DecodeDirectory ==
    /\ comp = "MINIDUMP_STREAM_TYPE"
    /\ out["MINIDUMP_DIRECTORY"] = NoResult
    /\ out' = [out EXCEPT !["MINIDUMP_DIRECTORY"] = Pread(MINIDUMP_DIRECTORY, src, endian, build)]
    /\ UNCHANGED <<comp, guid, src, raw, info, iters, strings, endian, build>>

(* MINIDUMP_STREAM_TYPE::from_u32(raw), CvSignature::from_u32(raw) *)
FromU32 ==
    /\ comp \in DOMAIN Enums
    /\ out["from_u32"] = NoResult
    /\ out' = [out EXCEPT !["from_u32"] = [kind |-> "Ok", val |-> from_u32(Enums[comp], raw)]]
    /\ UNCHANGED <<comp, guid, src, raw, info, iters, strings, endian, build>>

(* u32::from(ty) for the variant ty that from_u32 returned. *)
U32From ==
    /\ comp \in DOMAIN Enums
    /\ out["from_u32"] # NoResult
    /\ out["from_u32"].val.some
    /\ out["u32::from"] = NoResult
    /\ out' = [out EXCEPT !["u32::from"] =
                  [kind |-> "Ok", val |-> u32_from(Enums[comp], out["from_u32"].val.val)]]
    /\ UNCHANGED <<comp, guid, src, raw, info, iters, strings, endian, build>>

NextSymbols == DecodeDirectory \/ FromU32 \/ U32From

SpecSymbols == InitSymbols /\ [][NextSymbols]_vars

-----------------------------------------------------------------------------
(* Trailing-blob record decoder: CV_INFO_PDB20, CV_INFO_PDB70, CV_INFO_ELF, *)
(* and the entry point of every record decoder, pread_with.                *)

u8 == IntT(1)

(* pub struct GUID, as derive(Pread) reads it. *)
GUID ==
    StructT(<< Field("data1", u32), Field("data2", u16), Field("data3", u16),
               Field("data4", ArrayT(u8, 8)) >>)

(* The fields try_from_ctx reads with gread_with(offset, endian) before    *)
(* the trailing blob, and the name of the blob.                            *)
CV_INFO_PDB20 ==
    [ fields |-> << Field("cv_signature", u32), Field("cv_offset", u32),
                    Field("signature", u32), Field("age", u32) >>,
      blob |-> "pdb_file_name" ]

CV_INFO_PDB70 ==
    [ fields |-> << Field("cv_signature", u32), Field("signature", GUID), Field("age", u32) >>,
      blob |-> "pdb_file_name" ]

CV_INFO_ELF ==
    [ fields |-> << Field("cv_signature", u32) >>, blob |-> "build_id" ]

CvTypes == [CV_INFO_PDB20 |-> CV_INFO_PDB20, CV_INFO_PDB70 |-> CV_INFO_PDB70, CV_INFO_ELF |-> CV_INFO_ELF]

(* a - b on usize for a, b below 2^24: a panic when b > a and overflow     *)
(* checks are on, a wrap to 2^bits - (b - a) when they are off.            *)
UsizeSub(a, b, bld) ==
    LET w == bld.usizeBits \div 8
    IN  IF a >= b THEN Ok(Num(a - b, w), 0)
        ELSE IF bld.overflowChecks THEN Panic("attempt to subtract with overflow")
        ELSE Ok([i \in 1 .. w |->
                    IF i <= w - 3 THEN 255
                    ELSE Num(16777216 - (b - a), 3)[i - (w - 3)]], 0)

(* CV_INFO_PDB20::try_from_ctx, CV_INFO_PDB70::try_from_ctx and            *)
(* CV_INFO_ELF::try_from_ctx: the fixed fields from offset 0, each with    *)
(* `?`, then `size = src.len() - *offset` bytes for the blob; the offset   *)
(* reached is returned.                                                    *)
CvTryFromCtx(t, s, e, b) ==
    LET head == ReadFields(t.fields, 1, s, 0, 0, <<>>, e, b)
    IN  IF head.kind # "Ok" THEN head
        ELSE LET size == UsizeSub(Len(s), head.used, b)
             IN  IF size.kind # "Ok" THEN size
                 ELSE LET data == GreadBytes(s, head.used, size.val, b)
                      IN  IF data.kind # "Ok" THEN data
                          ELSE Ok(head.val @@ (t.blob :> data.val), head.used + data.used)

DecoderNames ==
    { "MINIDUMP_HEADER", "MINIDUMP_DIRECTORY", "MINIDUMP_LOCATION_DESCRIPTOR",
      "CV_INFO_PDB20", "CV_INFO_PDB70", "CV_INFO_ELF", "MINIDUMP_UTF8_STRING" }

(* <T as TryFromCtx<Endian>>::try_from_ctx(src, endian) for the type named. *)
TryFromCtxOf(name, s, e, b) ==
    CASE name = "MINIDUMP_HEADER" -> TryFromCtx(MINIDUMP_HEADER, s, 0, e, b)
      [] name = "MINIDUMP_DIRECTORY" -> TryFromCtx(MINIDUMP_DIRECTORY, s, 0, e, b)
      [] name = "MINIDUMP_LOCATION_DESCRIPTOR" -> TryFromCtx(MINIDUMP_LOCATION_DESCRIPTOR, s, 0, e, b)
      [] name \in DOMAIN CvTypes -> CvTryFromCtx(CvTypes[name], s, e, b)
      [] name = "MINIDUMP_UTF8_STRING" -> Utf8TryFromCtx(s, e, b)

(* src.pread_with::<T>(0, endian): the offset check, then try_from_ctx. *)
PreadWith(name, s, e, b) ==
    IF OffsetRefused(0, Len(s), b) THEN Err(BadOffset(0)) ELSE TryFromCtxOf(name, s, e, b)

(* The number of bytes before the variable part of a type: the whole of a  *)
(* fixed record, the fields before the blob, the length and the NUL.       *)
MinSize(name) ==
    CASE name = "MINIDUMP_HEADER" -> SizeOf(MINIDUMP_HEADER)
      [] name = "MINIDUMP_DIRECTORY" -> SizeOf(MINIDUMP_DIRECTORY)
      [] name = "MINIDUMP_LOCATION_DESCRIPTOR" -> SizeOf(MINIDUMP_LOCATION_DESCRIPTOR)
      [] name \in DOMAIN CvTypes -> SizeOfFields(CvTypes[name].fields, 1)
      [] name = "MINIDUMP_UTF8_STRING" -> SizeOf(u32) + 1

(* The buffers the decoders are exercised on: none, and from one byte less *)
(* than the fixed part to MaxBlob bytes more, with three patterns and with *)
(* each CodeView signature in the first four bytes; for the string, every  *)
(* buffer of up to six bytes 0 or 255 as well.                             *)
MaxBlob == 2

DecoderLengths(name) == {0} \cup (MinSize(name) - 1) .. (MinSize(name) + MaxBlob)

DecoderBuffers(name, e) ==
    {Pattern(seed, n) : seed \in {1, 2, 3}, n \in DecoderLengths(name)}
    \cup {Overwrite(Pattern(1, n), ToBytes(CvSignature[i][2], e)) :
            n \in DecoderLengths(name), i \in 1 .. Len(CvSignature)}
    \cup (IF name = "MINIDUMP_UTF8_STRING" THEN SeqsUpTo({0, 255}, 4 + MaxBlob) ELSE {})

InitDecoders ==
    /\ comp \in DecoderNames
    /\ guid = NoGuid
    /\ raw = NoRaw
    /\ info = NoInfo /\ iters = NoIters /\ strings = NoStrings
    /\ endian \in {"LE", "BE"}
    /\ src \in DecoderBuffers(comp, endian)
    /\ build \in Builds
    /\ out = [o \in {comp} |-> NoResult]

(* src.pread_with::<T>(0, endian) for the type T that comp names. *)
Decode ==
    /\ comp \in DecoderNames
    /\ out[comp] = NoResult
    /\ out' = [out EXCEPT ![comp] = PreadWith(comp, src, endian, build)]
    /\ UNCHANGED <<comp, guid, src, raw, info, iters, strings, endian, build>>

NextDecoders == Decode

SpecDecoders == InitDecoders /\ [][NextDecoders]_vars

-----------------------------------------------------------------------------
(* Records of strings set by index: multi_strings! and the mac crash info  *)
(* record strings.                                                         *)

(* The fields handed to multi_strings!, one block per `pub struct`. *)
MacCrashInfoStringsBlocks ==
    << <<>>,
       <<"module_path", "message", "signature_string", "backtrace", "message2">>,
       <<>> >>

MacCrashInfoStringsNames ==
    << "MINIDUMP_MAC_CRASH_INFO_RECORD_STRINGS", "MINIDUMP_MAC_CRASH_INFO_RECORD_STRINGS_4",
       "MINIDUMP_MAC_CRASH_INFO_RECORD_STRINGS_5" >>

(* multi_strings!: the k-th struct declared has the fields of the structs  *)
(* before it ($prev), then its own ($cur).                                 *)
RECURSIVE MultiStrings(_, _)
MultiStrings(blocks, k) ==
    IF k = 0 THEN <<>> ELSE MultiStrings(blocks, k - 1) \o blocks[k]

(* The fields of the struct named, in declaration order. *)
StringFields(name) ==
    MultiStrings(MacCrashInfoStringsBlocks,
                 CHOOSE k \in 1 .. Len(MacCrashInfoStringsNames) : MacCrashInfoStringsNames[k] = name)

(* num_strings(): count_tts! of the field types. *)
num_strings(fields) == Len(fields)

(* derive(Default): every String empty. *)
DefaultStrings(fields) == [f \in {fields[i] : i \in 1 .. Len(fields)} |-> ""]

(* The unrolled `if cur_idx == idx { self.$field = string; return; }       *)
(* cur_idx += 1;` of set_string with the increment before the test.        *)
RECURSIVE SetStringFrom(_, _, _, _, _)
SetStringIncrementFirst(self, fields, cur_idx, idx, string) ==
    IF cur_idx >= Len(fields)
    THEN [self |-> self, result |-> Panic(<<"string index out of bounds", idx, cur_idx>>)]
    ELSE IF cur_idx + 1 = idx
         THEN [self |-> [self EXCEPT ![fields[cur_idx + 1]] = string], result |-> Ok(<<>>, 0)]
         ELSE SetStringFrom(self, fields, cur_idx + 1, idx, string)

(* The same with no panic at the end: an index past the last field sets    *)
(* the last field, or nothing when there is none.                          *)
SetStringClamped(self, fields, cur_idx, idx, string) ==
    IF cur_idx >= Len(fields)
    THEN [self |-> self, result |-> Ok(<<>>, 0)]
    ELSE IF cur_idx = idx \/ cur_idx = Len(fields) - 1
         THEN [self |-> [self EXCEPT ![fields[cur_idx + 1]] = string], result |-> Ok(<<>>, 0)]
         ELSE SetStringFrom(self, fields, cur_idx + 1, idx, string)

(* set_string from the field at cur_idx on: the field whose place is idx   *)
(* is assigned and the call returns; past the last field it panics with    *)
(* "string index out of bounds {idx} >= {cur_idx}".                        *)
SetStringFrom(self, fields, cur_idx, idx, string) ==
    IF cur_idx >= Len(fields)
    THEN [self |-> self, result |-> Panic(<<"string index out of bounds", idx, cur_idx>>)]
    ELSE IF cur_idx = idx
         THEN [self |-> [self EXCEPT ![fields[cur_idx + 1]] = string], result |-> Ok(<<>>, 0)]
         ELSE SetStringFrom(self, fields, cur_idx + 1, idx, string)

(* $name::set_string(&mut self, idx, string): `let mut cur_idx = 0`, then  *)
(* the fields in order.                                                    *)
set_string(self, fields, idx, string) == SetStringFrom(self, fields, 0, idx, string)

(* The calls made: at most MaxSets of them, with an index up to MaxIdx and *)
(* one of three strings.                                                   *)
MaxSets == 3

MaxIdx == 6

InitStrings ==
    /\ comp \in {MacCrashInfoStringsNames[k] : k \in 1 .. Len(MacCrashInfoStringsNames)}
    /\ guid = NoGuid
    /\ src = <<>>
    /\ raw = NoRaw
    /\ info = NoInfo /\ iters = NoIters
    /\ strings = DefaultStrings(StringFields(comp))
    /\ endian = "LE"
    /\ build = DefaultBuild
    /\ out = [o \in {"set_string"} |-> [kind |-> "None", calls |-> <<>>]]

(* self.set_string(idx, string); a panic ends the caller. *)
SetString ==
    /\ comp \in {MacCrashInfoStringsNames[k] : k \in 1 .. Len(MacCrashInfoStringsNames)}
    /\ out["set_string"].kind # "Panic"
    /\ Len(out["set_string"].calls) < MaxSets
    /\ \E idx \in 0 .. MaxIdx, string \in {"", "a", "b"} :
          LET r == set_string(strings, StringFields(comp), idx, string)
          IN  /\ strings' = r.self
              /\ out' = [out EXCEPT !["set_string"] =
                            r.result @@ [calls |-> Append(out["set_string"].calls, <<idx, string>>)]]
    /\ UNCHANGED <<comp, guid, src, raw, info, iters, endian, build>>

SpecStrings == InitStrings /\ [][SetString]_vars

-----------------------------------------------------------------------------
(* Enabled XSAVE features: XSTATE_CONFIG_FEATURE_MSC_INFO::iter and        *)
(* XstateFeatureIter, with callers sharing one info and one buffer.        *)

(* pub struct XSTATE_FEATURE { offset: u32, size: u32 }: the entry at      *)
(* place i of the records drawn, each place with its own offset and size.  *)
FeatureAt(i) == [offset |-> Num(16 * i, 4), size |-> Num(i + 1, 4)]

(* An XSTATE_CONFIG_FEATURE_MSC_INFO value with features: [XSTATE_FEATURE; *)
(* 64] (places 1 .. 64 hold features[0] .. features[63]), Features(n)      *)
(* being its first n entries.                                              *)
RECURSIVE Features(_)
Features(n) == IF n = 0 THEN <<>> ELSE Append(Features(n - 1), FeatureAt(n - 1))

InfoWith(enabled_features) ==
    [ size_of_info     |-> Num(528, 4),
      context_size     |-> Num(0, 4),
      enabled_features |-> enabled_features,
      features         |-> Features(64) ]

(* The enabled_features drawn: none; bit 0; bit 63; bits 0 and 63; bits 1, *)
(* 2, 8 and 62; bits 0 .. 2 and 61 .. 63.                                  *)
EnabledFeatures ==
    { <<0, 0, 0, 0, 0, 0, 0, 0>>, <<0, 0, 0, 0, 0, 0, 0, 1>>, <<128, 0, 0, 0, 0, 0, 0, 0>>,
      <<128, 0, 0, 0, 0, 0, 0, 1>>, <<64, 0, 0, 0, 0, 0, 1, 6>>, <<224, 0, 0, 0, 0, 0, 0, 7>> }

RECURSIVE Pow2(_)
Pow2(n) == IF n = 0 THEN 1 ELSE 2 * Pow2(n - 1)

(* `1 << n` as a u64, the literal taking the type of enabled_features: a   *)
(* shift by 64 or more panics with overflow checks and is taken modulo 64  *)
(* without.                                                                *)
Shl1(n, b) ==
    IF n >= 64 /\ b.overflowChecks THEN Panic("attempt to shift left with overflow")
    ELSE [kind |-> "Ok", val |-> [i \in 1 .. 8 |-> IF i = 8 - ((n % 64) \div 8) THEN Pow2(n % 8) ELSE 0]]

(* XstateFeatureIter { info: self, idx: 0 } with idx at 1. *)
iterFromOne(self) == [created |-> TRUE, idx |-> 1]

(* XSTATE_CONFIG_FEATURE_MSC_INFO::iter: XstateFeatureIter { info: self,   *)
(* idx: 0 }; info is a reference to the record the callers share.          *)
iter(self) == [created |-> TRUE, idx |-> 0]

(* `while self.idx <= self.info.features.len()` *)
LoopGuardInclusive(idx, len) == idx <= len

(* `while self.idx < self.info.features.len()` *)
LoopGuard(idx, len) == idx < len

(* One pass of the loop body with cur_idx = idx: what it returns, or       *)
(* "continue" when the bit is clear.                                       *)
LoopBody(self_info, cur_idx, b) ==
    LET bit == Shl1(cur_idx, b)
    IN  IF bit.kind = "Panic" THEN bit
        ELSE IF BitAnd(self_info.enabled_features, bit.val) # <<0, 0, 0, 0, 0, 0, 0, 0>>
             THEN IF cur_idx >= Len(self_info.features)
                  THEN Panic("index out of bounds")
                  ELSE [kind |-> "Ok", val |-> Some(<<cur_idx, self_info.features[cur_idx + 1]>>)]
             ELSE [kind |-> "continue"]

(* XstateFeatureIter::next: the loop from self.idx = from on. The passes   *)
(* it can make are those reached with the guard true all the way; it       *)
(* leaves at the first that returns, with idx one past it, or at the first *)
(* idx the guard refuses, returning None.                                  *)
NextLoop(self_info, from, b) ==
    LET len == Len(self_info.features)
        passes == {c \in from .. len + 1 : \A d \in from .. c : LoopGuard(d, len)}
        returns == {c \in passes : LoopBody(self_info, c, b).kind # "continue"}
    IN  IF returns = {}
        THEN [idx |-> from + Cardinality(passes), result |-> [kind |-> "Ok", val |-> None]]
        ELSE LET cur_idx == CHOOSE c \in returns : \A d \in returns : c <= d
             IN  [idx |-> cur_idx + 1, result |-> LoopBody(self_info, cur_idx, b)]

(* impl Iterator for XstateFeatureIter: next(&mut self), with the amount   *)
(* of the last shift it made (the last cur_idx; -1 when it made none).     *)
next(self, self_info, b) ==
    LET r == NextLoop(self_info, self.idx, b)
    IN  [idx |-> r.idx, result |-> r.result, shift |-> IF r.idx > self.idx THEN r.idx - 1 ELSE -1]

(* self.idx kept in one place for every iterator over the info. *)
WriteIdxShared(its, k, idx) ==
    [j \in DOMAIN its |-> IF its[j].created THEN [its[j] EXCEPT !.idx = idx] ELSE its[j]]

(* `self.idx += 1` through &mut self: the caller's own iterator. *)
WriteIdx(its, k, idx) == [its EXCEPT ![k].idx = idx]

(* Two callers, each with its own iterator and its own results. *)
Callers == {"a", "b"}

(* The buffers they decode a MINIDUMP_UTF8_STRING from: none, and "hello"  *)
(* with and without its terminator.                                        *)
SharedBuffers == HelloBuffers \cup {<<>>}

(* The callers share either one buffer, which they decode, or one info,    *)
(* over which they iterate.                                                *)
InitCallers ==
    /\ \/ /\ comp = "MINIDUMP_UTF8_STRING"
          /\ src \in SharedBuffers
          /\ info = NoInfo
          /\ endian \in {"LE", "BE"}
       \/ /\ comp = "XstateFeatureIter"
          /\ src = <<>>
          /\ info \in {InfoWith(f) : f \in EnabledFeatures}
          /\ endian = "LE"
    /\ guid = NoGuid
    /\ raw = NoRaw
    /\ iters = [k \in Callers |-> NoIter]
    /\ strings = NoStrings
    /\ build \in Builds
    /\ out = [k \in Callers |->
                [last |-> NoResult, items |-> <<>>, nones |-> 0, shift |-> -1, decoded |-> <<>>]]

(* let it = info.iter() by caller k. *)
Iter(k) ==
    /\ comp = "XstateFeatureIter"
    /\ ~iters[k].created
    /\ iters' = [iters EXCEPT ![k] = iter(info)]
    /\ UNCHANGED <<comp, guid, src, raw, info, strings, endian, build, out>>

(* it.next() by caller k, the whole call; None is asked for at most        *)
(* MaxCalls times and a panic ends the caller.                             *)
NextItem(k) ==
    /\ comp = "XstateFeatureIter"
    /\ iters[k].created
    /\ out[k].last.kind # "Panic"
    /\ out[k].nones < MaxCalls
    /\ \E r \in {next(iters[k], info, build)} :
          LET some == r.result.kind = "Ok" /\ r.result.val.some
          IN  /\ iters' = WriteIdx(iters, k, r.idx)
              /\ out' = [out EXCEPT ![k] =
                            [ last    |-> r.result,
                              items   |-> IF some THEN Append(@.items, r.result.val.val) ELSE @.items,
                              nones   |-> IF r.result.kind = "Ok" /\ ~some THEN @.nones + 1 ELSE @.nones,
                              shift   |-> IF r.shift > @.shift THEN r.shift ELSE @.shift,
                              decoded |-> @.decoded ]]
    /\ UNCHANGED <<comp, guid, src, raw, info, strings, endian, build>>

(* src.pread_with::<MINIDUMP_UTF8_STRING>(0, endian) by caller k, at most  *)
(* MaxCalls times.                                                         *)
DecodeShared(k) ==
    /\ comp = "MINIDUMP_UTF8_STRING"
    /\ Len(out[k].decoded) < MaxCalls
    /\ out' = [out EXCEPT ![k].decoded = Append(@, Utf8TryFromCtx(src, endian, build))]
    /\ UNCHANGED <<comp, guid, src, raw, info, iters, strings, endian, build>>

NextCallers == \E k \in Callers : Iter(k) \/ NextItem(k) \/ DecodeShared(k)

SpecCallers == InitCallers /\ [][NextCallers]_vars

-----------------------------------------------------------------------------
(* The whole layer: one input, one component, any of its operations.       *)

Init ==
    InitGuid \/ InitUtf8 \/ InitRecords \/ InitFlags \/ InitSymbols \/ InitDecoders \/ InitStrings
        \/ InitCallers

Next ==
    NextGuid \/ NextUtf8 \/ NextRecords \/ NextFlags \/ NextSymbols \/ NextDecoders \/ SetString
        \/ NextCallers

Spec == Init /\ [][Next]_vars

-----------------------------------------------------------------------------
(* Properties of the identifier formatter, checked under SpecGuid.         *)

(* The 32 hexadecimal digits of a GUID as numbers, in the order data1,     *)
(* data2, data3, data4[0] .. data4[7], most significant first.             *)
Nibbles(g) ==
    LET bytes == g.data1 \o g.data2 \o g.data3 \o g.data4
    IN  [j \in 1 .. 32 |->
            IF j % 2 = 1 THEN bytes[(j + 1) \div 2] \div 16 ELSE bytes[j \div 2] % 16]

(* The places of the hyphens, counted from 1 (8, 13, 18, 23 from 0). *)
HyphenAt == {9, 14, 19, 24}

ToUpper(c) ==
    CASE c = "a" -> "A" [] c = "b" -> "B" [] c = "c" -> "C"
      [] c = "d" -> "D" [] c = "e" -> "E" [] c = "f" -> "F" [] OTHER -> c

RemoveHyphens(t) == SelectSeq(t, LAMBDA c : c # "-")

DocDefaultText ==
    << "0", "0", "0", "0", "0", "0", "0", "a", "-", "0", "0", "0", "b", "-",
       "0", "0", "0", "c", "-", "0", "1", "0", "2", "-",
       "0", "3", "0", "4", "0", "5", "0", "6", "0", "7", "0", "8" >>

DocAlternateText ==
    << "0", "0", "0", "0", "0", "0", "0", "A", "0", "0", "0", "B",
       "0", "0", "0", "C", "0", "1", "0", "2",
       "0", "3", "0", "4", "0", "5", "0", "6", "0", "7", "0", "8" >>

(* C1: the default Display form of every GUID is 36 characters: hyphens at *)
(* positions 8, 13, 18 and 23, and the 32 lower-case zero-padded digits of *)
(* data1 (8), data2 (4), data3 (4), data4[0..1] and data4[2..7] elsewhere; *)
(* the doc test's GUID gives "0000000a-000b-000c-0102-030405060708".       *)
C1_DefaultForm ==
    (comp = "guid" /\ out["to_string"] # NoResult) =>
        LET t == out["to_string"].val
        IN  /\ Len(t) = 36
            /\ \A p \in 1 .. 36 :
                  IF p \in HyphenAt THEN t[p] = "-"
                  ELSE t[p] = HexLower[Nibbles(guid)[p - Cardinality({h \in HyphenAt : h < p})] + 1]
            /\ (guid = DocGuid => t = DocDefaultText)

C1_Witness == comp = "guid" /\ guid = DocGuid /\ out["to_string"] # NoResult

C2_AlternateState ==
    (comp = "guid" /\ out["format_alternate"] # NoResult) =>
        LET t == out["format_alternate"].val
        IN  /\ Len(t) = 32
            /\ \A j \in 1 .. 32 : t[j] = HexUpper[Nibbles(guid)[j] + 1]
            /\ (out["to_string"] # NoResult =>
                  LET d == RemoveHyphens(out["to_string"].val)
                  IN  t = [j \in 1 .. Len(d) |-> ToUpper(d[j])])
            /\ (guid = DocGuid => t = DocAlternateText)

(* C2: the alternate ('#') Display form of every GUID is the 32 upper-case *)
(* zero-padded digits of data1, data2, data3, data4[0..7] with no hyphen,  *)
(* which is the default form without its hyphens and in upper case; the    *)
(* doc test's GUID gives "0000000A000B000C0102030405060708"; and no        *)
(* formatting call changes the GUID.                                       *)
C2_AlternateForm == [](C2_AlternateState) /\ [][guid' = guid]_vars

C2_Witness ==
    /\ comp = "guid" /\ guid = DocGuid
    /\ out["format_alternate"] # NoResult /\ out["to_string"] # NoResult

-----------------------------------------------------------------------------
(* Properties of MINIDUMP_UTF8_STRING decoding, checked under SpecUtf8.    *)

Utf8Result == out["MINIDUMP_UTF8_STRING"]

Utf8Decoded == comp = "utf8" /\ Utf8Result # NoResult

(* The u32 length the buffer declares, when it holds the 4-byte prefix. *)
HasPrefix == Len(src) >= 4

DeclaredLength == FromBytes(SubSeq(src, 1, 4), endian)

(* The buffer holds at least n bytes after the prefix / exactly n. *)
HoldsAfterPrefix(n) == HasPrefix /\ IsSmall(DeclaredLength) /\ Len(src) >= 4 + n

(* The buffer is a length L, L payload bytes and a NUL, and nothing more. *)
WellFormedUtf8 ==
    /\ HasPrefix /\ IsSmall(DeclaredLength)
    /\ Len(src) = 4 + SmallValue(DeclaredLength) + 1
    /\ src[Len(src)] = 0

Payload == SubSeq(src, 5, 4 + SmallValue(DeclaredLength))

(* C3, as claimed: a buffer made of a u32 length L, L payload bytes and a  *)
(* NUL decodes, 4 + L + 1 bytes are consumed, and the decoded string is    *)
(* exactly the L payload bytes, without the terminator.                    *)
C3_StringWithoutTerminator ==
    (Utf8Decoded /\ WellFormedUtf8) =>
        /\ Utf8Result.kind = "Ok"
        /\ Utf8Result.used = 4 + SmallValue(DeclaredLength) + 1
        /\ Utf8Result.val.buffer = Payload

(* C3, amended: such a buffer decodes, 4 + L + 1 bytes are consumed, the   *)
(* length field is L, and the decoded buffer is the L payload bytes        *)
(* followed by the NUL terminator (L + 1 bytes): the string proper is its  *)
(* first L bytes.                                                          *)
C3_BufferKeepsTerminator ==
    (Utf8Decoded /\ WellFormedUtf8) =>
        /\ Utf8Result.kind = "Ok"
        /\ Utf8Result.used = 4 + SmallValue(DeclaredLength) + 1
        /\ Utf8Result.val.length = DeclaredLength
        /\ Utf8Result.val.buffer = Payload \o <<0>>
        /\ SubSeq(Utf8Result.val.buffer, 1, SmallValue(DeclaredLength)) = Payload

C3_Witness ==
    /\ Utf8Decoded /\ WellFormedUtf8 /\ Payload = Hello
    /\ Utf8Result.kind = "Ok"

(* C4: when the byte right after the L payload bytes is in the buffer and  *)
(* is not NUL, decoding fails with the missing-terminator error and        *)
(* returns no record, whatever the payload bytes are.                      *)
C4_NonNulTerminator ==
    (/\ Utf8Decoded
     /\ HoldsAfterPrefix(SmallValue(DeclaredLength) + 1)
     /\ src[4 + SmallValue(DeclaredLength) + 1] # 0)
        => Utf8Result = Err(Custom(NulMessage))

C4_Witness ==
    /\ Utf8Decoded
    /\ HoldsAfterPrefix(SmallValue(DeclaredLength) + 1)
    /\ SmallValue(DeclaredLength) = 1
    /\ src[5] = 0 /\ src[6] # 0
    /\ Utf8Result.kind = "Err"

(* The buffer is a length L and exactly L payload bytes: the NUL removed. *)
TerminatorRemoved ==
    /\ HasPrefix /\ IsSmall(DeclaredLength)
    /\ Len(src) = 4 + SmallValue(DeclaredLength)

(* C5, as claimed: a record whose trailing NUL was removed fails with the  *)
(* missing-terminator error, the kind reported for a non-NUL terminator.   *)
C5_RemovedNulIsMissingTerminator ==
    (Utf8Decoded /\ TerminatorRemoved) => Utf8Result = Err(Custom(NulMessage))

(* C5, amended: a record whose trailing NUL was removed fails with an      *)
(* out-of-bounds error of the reader, TooBig { size: L + 1, len: L } (or   *)
(* BadOffset(4) when L = 0 and reads at the end of the buffer are          *)
(* refused), which is not the kind reported for a non-NUL terminator.      *)
C5_RemovedNulIsOutOfBounds ==
    (Utf8Decoded /\ TerminatorRemoved) =>
        /\ Utf8Result.kind = "Err"
        /\ Utf8Result.err =
              IF Len(src) = 4 /\ ~build.readAtEnd THEN BadOffset(4)
              ELSE TooBig(Successor(AsUsize(DeclaredLength, build)), Len(src) - 4)
        /\ Utf8Result.err.error # "Custom"

C5_Witness ==
    /\ Utf8Decoded /\ TerminatorRemoved /\ Payload = Hello
    /\ Utf8Result.kind = "Err"

(* C6: with a declared length L for which fewer than L + 1 bytes are left  *)
(* after the prefix, decoding returns an error, never a string clamped to  *)
(* the bytes that are there.                                               *)
C6_ShortBufferIsError ==
    (/\ Utf8Decoded /\ HasPrefix
     /\ GreaterThan(DeclaredLength, Len(src) - 4 - 1))
        => Utf8Result.kind = "Err"

(* C21, as claimed: when decoding fails on the payload, the caller still   *)
(* obtains the u32 length that was decoded before it.                      *)
C21_LengthSurvivesFailure ==
    (Utf8Decoded /\ HasPrefix /\ Utf8Result.kind # "Ok") =>
        /\ "val" \in DOMAIN Utf8Result
        /\ Utf8Result.val.length = DeclaredLength

(* C21, amended: when decoding fails on the payload, the call returns the  *)
(* error and nothing of the record: BadOffset(4), TooBig with the size     *)
(* asked for and the bytes left, or the missing-terminator error; the      *)
(* decoded length is discarded (or the call panics on the overflow of      *)
(* length + 1, and returns nothing at all).                                *)
C21_FailureYieldsOnlyError ==
    (Utf8Decoded /\ HasPrefix /\ Utf8Result.kind # "Ok") =>
        /\ "val" \notin DOMAIN Utf8Result
        /\ Utf8Result.kind = "Panic" =>
              IsMax(AsUsize(DeclaredLength, build)) /\ build.overflowChecks
        /\ Utf8Result.kind = "Err" =>
              Utf8Result.err \in
                  { BadOffset(4),
                    TooBig(Successor(AsUsize(DeclaredLength, build)), Len(src) - 4),
                    Custom(NulMessage) }

C21_Witness ==
    /\ Utf8Decoded
    /\ HoldsAfterPrefix(6) /\ DeclaredLength = Num(5, 4)
    /\ src[10] = 33
    /\ Utf8Result = Err(Custom(NulMessage))

(* C29: after every successful decode the length field is the u32 prefix   *)
(* and does not count the terminator, the buffer is the length + 1 bytes   *)
(* after the prefix, the last of them 0, and 4 + length + 1 bytes are      *)
(* consumed.                                                               *)
C29_BufferIsNulTerminated ==
    (Utf8Decoded /\ Utf8Result.kind = "Ok") =>
        LET r == Utf8Result.val
        IN  /\ HasPrefix /\ r.length = DeclaredLength
            /\ IsSmall(r.length)
            /\ Len(r.buffer) = SmallValue(r.length) + 1
            /\ r.buffer[Len(r.buffer)] = 0
            /\ r.buffer = SubSeq(src, 5, 5 + SmallValue(r.length))
            /\ Utf8Result.used = 4 + SmallValue(r.length) + 1

C29_Witness ==
    /\ Utf8Decoded /\ Utf8Result.kind = "Ok"
    /\ Utf8Result.val.length = Num(1, 4)
    /\ Utf8Result.val.buffer = <<255, 0>>
    /\ Len(src) = 7

(* C30: for every u32 length, 0xFFFFFFFF included, length as usize + 1 is  *)
(* the mathematical length + 1 (the addition does not wrap to 0), and a    *)
(* maximal length against a shorter buffer is an error: no panic, no       *)
(* 0-byte read taken for the payload.                                      *)
C30_LengthPlusOneDoesNotWrap ==
    (Utf8Decoded /\ HasPrefix) =>
        /\ ~IsMax(AsUsize(DeclaredLength, build))
        /\ Successor(AsUsize(DeclaredLength, build)) # AsUsize(Num(0, 4), build)
        /\ Utf8Result.kind # "Panic"
        /\ IsMax(DeclaredLength) =>
              /\ Utf8Result.kind = "Err"
              /\ Utf8Result.err.error \in {"BadOffset", "TooBig"}

-----------------------------------------------------------------------------
(* Properties of the derive(Pread) records, checked under SpecRecords.     *)

(* The bytes that encode a decoded value of a type under a byte order: the *)
(* inverse of decoding, used to say where in the buffer a field's value    *)
(* came from.                                                              *)
RECURSIVE Encode(_, _, _)
RECURSIVE EncodeFields(_, _, _, _)
Encode(v, t, e) ==
    CASE t.tag = "int" -> ToBytes(v, e)
      [] t.tag = "array" ->
            LET w == SizeOf(t.elem)
            IN  [j \in 1 .. t.count * w |->
                    Encode(v[((j - 1) \div w) + 1], t.elem, e)[((j - 1) % w) + 1]]
      [] t.tag = "struct" -> EncodeFields(v, t.fields, 1, e)

EncodeFields(v, fs, i, e) ==
    IF i > Len(fs) THEN <<>>
    ELSE Encode(v[fs[i].name], fs[i].type, e) \o EncodeFields(v, fs, i + 1, e)

NameOf(k) == FamilyNames(comp)[k]

FieldsOf(k) == FamilyType(comp, k).fields

FieldNames(k) == {FieldsOf(k)[i].name : i \in 1 .. Len(FieldsOf(k))}

(* The offset of the i-th field of a field list. *)
OffsetOf(fs, i) == SizeOfFields(SubSeq(fs, 1, i - 1), 1)

DecodedAs(k) == k \in Versions(comp) /\ out[NameOf(k)] # NoResult

Versioned == comp \in {"MINIDUMP_MISC_INFO", "MINIDUMP_MAC_CRASH_INFO_RECORD"}

V1Size == SizeOf(FamilyType(comp, 1))

(* C7, as claimed: a buffer of exactly the V1 size decoded through the     *)
(* decoder of a higher version is no hard failure: it yields a record with *)
(* exactly the V1 fields populated (and a TruncatedVersionedRecord note).  *)
C7_TruncatedYieldsV1Fields ==
    (Versioned /\ Len(src) = V1Size) =>
        \A k \in Versions(comp) :
            (k > 1 /\ DecodedAs(k)) =>
                /\ out[NameOf(k)].kind = "Ok"
                /\ DOMAIN out[NameOf(k)].val = FieldNames(1)
                /\ out[NameOf(k)].val = Pread(FamilyType(comp, 1), src, endian, build).val

(* C7, amended: a buffer of exactly the V1 size decoded through the        *)
(* decoder of a higher version is a hard failure of that call: the result  *)
(* is the reader's out-of-bounds error for the first field past the V1     *)
(* size (BadOffset(V1 size), or TooBig { size of that field, len: 0 } when *)
(* reads at the end of the buffer are allowed) and no record at all, so no *)
(* V1 field and no partially initialised V2/V3 field; the V1 fields are    *)
(* obtained from the V1 decoder, which succeeds on the same buffer and     *)
(* consumes the V1 size.                                                   *)
C7_TruncatedIsOutOfBounds ==
    (Versioned /\ Len(src) = V1Size) =>
        /\ \A k \in Versions(comp) :
              (k > 1 /\ DecodedAs(k)) =>
                  out[NameOf(k)] =
                      Err(IF build.readAtEnd
                          THEN TooBig(SizeOf(FieldsOf(2)[Len(FieldsOf(1)) + 1].type), 0)
                          ELSE BadOffset(V1Size))
        /\ DecodedAs(1) =>
              /\ out[NameOf(1)].kind = "Ok"
              /\ out[NameOf(1)].used = V1Size
              /\ DOMAIN out[NameOf(1)].val = FieldNames(1)

C7_Witness ==
    /\ comp = "MINIDUMP_MISC_INFO" /\ Len(src) = 24
    /\ DecodedAs(3) /\ out[NameOf(3)].kind = "Err"
    /\ DecodedAs(1) /\ out[NameOf(1)].kind = "Ok"

(* The size_of_info the buffer declares in its first four bytes. *)
DeclaredSize == FromBytes(SubSeq(src, 1, 4), endian)

(* Version k is decoded from a buffer that holds all of it while its       *)
(* size_of_info declares less.                                             *)
DeclaredShorter(k) ==
    /\ comp = "MINIDUMP_MISC_INFO" /\ DecodedAs(k)
    /\ Len(src) >= SizeOf(FamilyType(comp, k))
    /\ ~GreaterThan(DeclaredSize, SizeOf(FamilyType(comp, k)) - 1)

(* C8, as claimed: when size_of_info declares fewer bytes than version N's *)
(* size and the buffer holds at least that size, decoding as version N     *)
(* reads no field at or beyond byte offset size_of_info into the result.   *)
C8_NothingPastSizeOfInfo ==
    \A k \in Versions(comp) :
        DeclaredShorter(k) =>
            /\ out[NameOf(k)].kind = "Ok"
            /\ \A i \in 1 .. Len(FieldsOf(k)) :
                  ~GreaterThan(DeclaredSize, OffsetOf(FieldsOf(k), i))
                      => FieldsOf(k)[i].name \notin DOMAIN out[NameOf(k)].val

(* C8, amended: in that case decoding as version N succeeds and reads      *)
(* every field of version N from the buffer, those at or beyond byte       *)
(* offset size_of_info included: the record is the first size(N) bytes of  *)
(* the buffer, size(N) bytes are consumed, and size_of_info is returned as *)
(* an ordinary field that the decoder does not consult.                    *)
C8_ReadsPastSizeOfInfo ==
    \A k \in Versions(comp) :
        DeclaredShorter(k) =>
            LET r == out[NameOf(k)]
                n == SizeOf(FamilyType(comp, k))
            IN  /\ r.kind = "Ok"
                /\ r.used = n
                /\ DOMAIN r.val = FieldNames(k)
                /\ r.val["size_of_info"] = DeclaredSize
                /\ Encode(r.val, FamilyType(comp, k), endian) = SubSeq(src, 1, n)

C8_Witness ==
    /\ DeclaredShorter(3) /\ SmallValue(DeclaredSize) = 24
    /\ out[NameOf(3)].kind = "Ok"
    /\ "time_zone" \in DOMAIN out[NameOf(3)].val

MiscInfoSizes == <<24, 44, 232, 832, 1364>>

MacCrashInfoSizes == <<16, 32, 40>>

(* C9: in the misc info family and the mac crash info record family each   *)
(* version's layout is the previous version's followed by appended fields: *)
(* the same buffer decoded as version k and as version k + 1 gives equal   *)
(* values for every field of version k, which are the first fields of      *)
(* version k + 1 in the same order and at the same offsets; and the sizes  *)
(* consumed grow strictly: 24 < 44 < 232 < 832 < 1364 and 16 < 32 < 40.    *)
C9_VersionsExtendEachOther ==
    Versioned =>
        LET sizes == IF comp = "MINIDUMP_MISC_INFO" THEN MiscInfoSizes ELSE MacCrashInfoSizes
        IN  /\ Len(sizes) = Len(FamilyNames(comp))
            /\ \A k \in Versions(comp) :
                  (DecodedAs(k) /\ out[NameOf(k)].kind = "Ok") =>
                      /\ out[NameOf(k)].used = sizes[k]
                      /\ k > 1 => sizes[k - 1] < sizes[k]
            /\ \A k \in Versions(comp) :
                  (/\ k + 1 \in Versions(comp)
                   /\ DecodedAs(k) /\ DecodedAs(k + 1)
                   /\ out[NameOf(k + 1)].kind = "Ok") =>
                      /\ out[NameOf(k)].kind = "Ok"
                      /\ out[NameOf(k)].used < out[NameOf(k + 1)].used
                      /\ Len(FieldsOf(k)) < Len(FieldsOf(k + 1))
                      /\ \A i \in 1 .. Len(FieldsOf(k)) :
                            /\ FieldsOf(k + 1)[i] = FieldsOf(k)[i]
                            /\ OffsetOf(FieldsOf(k + 1), i) = OffsetOf(FieldsOf(k), i)
                            /\ out[NameOf(k + 1)].val[FieldsOf(k)[i].name]
                                  = out[NameOf(k)].val[FieldsOf(k)[i].name]

C9_Witness ==
    /\ comp = "MINIDUMP_MISC_INFO"
    /\ DecodedAs(4) /\ DecodedAs(5)
    /\ out[NameOf(4)].kind = "Ok" /\ out[NameOf(5)].kind = "Ok"

(* C10: a MINIDUMP_HEADER decodes from every buffer of at least 32 bytes,  *)
(* whatever the field values (signature and version are not validated),    *)
(* consumes exactly 32 bytes, and returns signature, version,              *)
(* stream_count, stream_directory_rva, checksum, time_date_stamp (u32      *)
(* each, at offsets 0, 4, .. 20) and flags (u64, at offset 24); the bytes  *)
(* of the first scenario decode with stream_count = 1.                     *)
C10_HeaderDecodes ==
    (comp = "MINIDUMP_HEADER" /\ DecodedAs(1) /\ Len(src) >= 32) =>
        LET r == out["MINIDUMP_HEADER"]
            at(o, w) == FromBytes(SubSeq(src, o + 1, o + w), endian)
        IN  /\ r.kind = "Ok"
            /\ r.used = 32
            /\ r.val = [signature |-> at(0, 4), version |-> at(4, 4),
                        stream_count |-> at(8, 4), stream_directory_rva |-> at(12, 4),
                        checksum |-> at(16, 4), time_date_stamp |-> at(20, 4),
                        flags |-> at(24, 8)]
            /\ (SubSeq(src, 1, 32) = ScenarioHeader(endian) =>
                  /\ r.val.stream_count = Num(1, 4)
                  /\ r.val.signature = MINIDUMP_SIGNATURE
                  /\ r.val.version = MINIDUMP_VERSION
                  /\ r.val.stream_directory_rva = Num(32, 4)
                  /\ r.val.flags = Num(0, 8))

C10_Witness ==
    /\ comp = "MINIDUMP_HEADER" /\ DecodedAs(1)
    /\ Len(src) >= 32
    /\ SubSeq(src, 1, 32) = ScenarioHeader(endian)
    /\ out["MINIDUMP_HEADER"].kind = "Ok"
    /\ out["MINIDUMP_HEADER"].val.stream_count = Num(1, 4)

-----------------------------------------------------------------------------
(* Properties of the architecture selector, checked under SpecFlags.       *)

FlagsResult == out["from_flags"]

FlagsDone == comp = "ContextFlagsCpu" /\ FlagsResult # NoResult

(* The values of the declared constants, and the bits some declared        *)
(* constant has.                                                           *)
DeclaredValues == {ContextFlagsCpu[n] : n \in DOMAIN ContextFlagsCpu}

DeclaredBits == UnionOf(DeclaredValues)

(* raw with its low 8 bits cleared. *)
UpperBits == <<raw[1], raw[2], raw[3], 0>>

(* The declared constants all of whose bits are set in a word. *)
ContainedIn(word) == {c \in DeclaredValues : BitAnd(c, word) = c}

(* C12: from_flags(flags) = from_flags(flags & 0xffffff00) for every flags: *)
(* the low 8 bits never change the architecture selected.                  *)
C12_MaskedFirst ==
    (FlagsDone /\ out["from_flags_masked"] # NoResult) =>
        /\ FlagsResult.val = out["from_flags_masked"].val
        /\ FlagsResult.val[4] = 0

C12_Witness ==
    /\ FlagsDone /\ out["from_flags_masked"] # NoResult
    /\ raw = <<0, 16, 0, 64>>
    /\ FlagsResult.val = <<0, 16, 0, 0>>

(* C13: from_flags(0x00010000 | low) is CONTEXT_X86 exactly, for every low *)
(* in 0 .. 0xff; it neither equals nor contains CONTEXT_AMD64.             *)
C13_X86Selected ==
    (FlagsDone /\ UpperBits = <<0, 1, 0, 0>>) =>
        /\ FlagsResult.val = <<0, 1, 0, 0>>
        /\ FlagsResult.val = ContextFlagsCpu["CONTEXT_X86"]
        /\ FlagsResult.val # ContextFlagsCpu["CONTEXT_AMD64"]
        /\ BitAnd(FlagsResult.val, ContextFlagsCpu["CONTEXT_AMD64"]) = empty

C13_Witness ==
    /\ FlagsDone
    /\ raw = <<0, 1, 0, 63>>
    /\ FlagsResult.val = ContextFlagsCpu["CONTEXT_X86"]

(* C14, as claimed: the outcome of from_flags is the empty set or exactly  *)
(* one declared architecture constant, never a union of several.           *)
C14_AtMostOneArchitecture ==
    FlagsDone => (FlagsResult.val = empty \/ FlagsResult.val \in DeclaredValues)

(* C14, amended: the outcome of from_flags is the union of the declared    *)
(* constants that flags & 0xffffff00 contains: empty when it contains      *)
(* none, one constant when it contains one, and the union of several when  *)
(* flags carries the bits of several (0x00110000 gives CONTEXT_X86 |       *)
(* CONTEXT_AMD64).                                                         *)
C14_UnionOfDeclared ==
    FlagsDone =>
        /\ FlagsResult.val = UnionOf(ContainedIn(UpperBits))
        /\ (Cardinality(ContainedIn(UpperBits)) >= 2 =>
                FlagsResult.val \notin DeclaredValues \cup {empty})
        /\ (raw = <<0, 17, 0, 0>> =>
                FlagsResult.val = BitOr(ContextFlagsCpu["CONTEXT_X86"],
                                        ContextFlagsCpu["CONTEXT_AMD64"]))

C14_Witness ==
    /\ FlagsDone
    /\ raw = <<0, 17, 0, 0>>
    /\ FlagsResult.val = <<0, 17, 0, 0>>

(* C15, as claimed: when flags & 0xffffff00 has a bit that no declared     *)
(* constant has, from_flags returns no recognized architecture.            *)
C15_UnknownIsUnrecognized ==
    (FlagsDone /\ BitAnd(UpperBits, DeclaredBits) # UpperBits) =>
        FlagsResult.val \notin DeclaredValues

(* C15, amended: from_flags returns the unrecognized (empty) outcome       *)
(* exactly when flags & 0xffffff00 has no bit of a declared constant; a    *)
(* bit that no declared constant has is dropped, so that together with the *)
(* bit of a declared architecture it still reports that architecture       *)
(* (0x00010100 gives CONTEXT_X86) and the outcome never holds it.          *)
C15_UnknownBitsDropped ==
    FlagsDone =>
        /\ (FlagsResult.val = empty <=> BitAnd(UpperBits, DeclaredBits) = empty)
        /\ BitAnd(FlagsResult.val, DeclaredBits) = FlagsResult.val
        /\ (UpperBits = <<0, 1, 1, 0>> => FlagsResult.val = ContextFlagsCpu["CONTEXT_X86"])
        /\ (UpperBits = <<0, 0, 1, 0>> => FlagsResult.val = empty)

C15_Witness ==
    /\ FlagsDone
    /\ raw = <<0, 1, 1, 0>>
    /\ FlagsResult.val = <<0, 1, 0, 0>>

(* C27: every constant declared in ContextFlagsCpu is selectable:          *)
(* from_flags(C.bits) = C for each declared constant C.                    *)
C27_EveryConstantSelectable ==
    FlagsDone =>
        \A n \in DOMAIN ContextFlagsCpu :
            raw = ContextFlagsCpu[n] => FlagsResult.val = ContextFlagsCpu[n]

(* The names of the declared constants whose bits a value holds. *)
NamedBy(val) ==
    {n \in DOMAIN ContextFlagsCpu : BitAnd(ContextFlagsCpu[n], val) = ContextFlagsCpu[n]}

(* C28: two distinct constants of ContextFlagsCpu never have the same      *)
(* bits, none has its bits within another's, and so the value from_flags   *)
(* returns names at most one architecture.                                 *)
C28_ConstantsUnambiguous ==
    FlagsDone =>
        /\ \A m, n \in DOMAIN ContextFlagsCpu :
              m # n => BitAnd(ContextFlagsCpu[m], ContextFlagsCpu[n]) # ContextFlagsCpu[m]
        /\ Cardinality(NamedBy(FlagsResult.val)) <= 1

-----------------------------------------------------------------------------
(* Properties of the symbolic enumeration codec, checked under SpecSymbols. *)

SymbolsDone == comp \in DOMAIN Enums /\ out["from_u32"] # NoResult

Declared(enum) == {enum[i][2] : i \in 1 .. Len(enum)}

(* The discriminant the enumeration's declaration gives a variant. *)
DiscriminantOf(enum, v) == enum[CHOOSE i \in 1 .. Len(enum) : enum[i][1] = v][2]

LastReservedStream == <<0, 0, 255, 255>>

AboveLastReserved(n) == n[1] # 0 \/ n[2] # 0

(* C16: from_u32(raw) is never an error: it is Some(symbol), with symbol a *)
(* variant whose discriminant is raw, exactly when raw is a declared       *)
(* discriminant, and None otherwise; and a MINIDUMP_DIRECTORY decodes with *)
(* the raw value unchanged in stream_type whether or not it has a name,    *)
(* values above LastReservedStream included.                               *)
C16_LookupIsTotal ==
    /\ SymbolsDone =>
          LET r == out["from_u32"]
          IN  /\ r.kind = "Ok"
              /\ r.val.some <=> raw \in Declared(Enums[comp])
              /\ r.val.some =>
                    /\ r.val.val \in Variants(Enums[comp])
                    /\ DiscriminantOf(Enums[comp], r.val.val) = raw
              /\ ~r.val.some => r.val = None
    /\ (comp = "MINIDUMP_STREAM_TYPE" /\ out["MINIDUMP_DIRECTORY"] # NoResult) =>
          LET d == out["MINIDUMP_DIRECTORY"]
          IN  /\ d.kind = "Ok"
              /\ d.used = 12
              /\ d.val.stream_type = raw
              /\ ToBytes(d.val.stream_type, endian) = SubSeq(src, 1, 4)

C16_Witness ==
    /\ comp = "MINIDUMP_STREAM_TYPE" /\ SymbolsDone
    /\ out["MINIDUMP_DIRECTORY"] # NoResult
    /\ AboveLastReserved(raw)
    /\ raw \notin Declared(MINIDUMP_STREAM_TYPE)
    /\ out["from_u32"].val = None
    /\ out["MINIDUMP_DIRECTORY"].kind = "Ok"
    /\ out["MINIDUMP_DIRECTORY"].val.stream_type = raw

(* C17: from_u32 and u32::from are inverse on the known values: from_u32   *)
(* of a variant's discriminant is that variant, u32::from of the variant   *)
(* from_u32(r) returned is r, and no two variants of an enumeration share  *)
(* a raw value.                                                            *)
C17_MutuallyInverse ==
    SymbolsDone =>
        LET enum == Enums[comp]
            r == out["from_u32"].val
        IN  /\ \A v \in Variants(enum) : raw = DiscriminantOf(enum, v) => r = Some(v)
            /\ (r.some /\ out["u32::from"] # NoResult) => out["u32::from"].val = raw
            /\ \A i, j \in 1 .. Len(enum) : enum[i][2] = enum[j][2] => i = j
            /\ \A i, j \in 1 .. Len(enum) : enum[i][1] = enum[j][1] => i = j

C17_Witness ==
    /\ comp = "MINIDUMP_STREAM_TYPE" /\ SymbolsDone
    /\ raw = <<71, 103, 0, 10>>
    /\ out["from_u32"].val = Some("LinuxDsoDebug")
    /\ out["u32::from"] # NoResult
    /\ out["u32::from"].val = raw

-----------------------------------------------------------------------------
(* Properties of the record decoders, checked under SpecDecoders.          *)

DecoderDone == comp \in DecoderNames /\ DOMAIN out = {comp} /\ out[comp] # NoResult

OutOfBounds(r) == r.kind = "Err" /\ r.err.error \in {"BadOffset", "TooBig"}

(* C11: for each record type, decoding a buffer one byte shorter than the  *)
(* type's minimum size returns an out-of-bounds error: no panic, no        *)
(* underflow of src.len() - offset, no partially filled record.            *)
C11_OneByteShortIsOutOfBounds ==
    (DecoderDone /\ Len(src) = MinSize(comp) - 1) => OutOfBounds(out[comp])

(* C18: for the three CodeView records, every buffer at least as long as   *)
(* the fixed header decodes, the trailing blob is the bytes from the end   *)
(* of the header to the end of the buffer, and the whole buffer is         *)
(* consumed; a buffer of exactly the header's size gives an empty blob.    *)
C18_BlobRunsToEnd ==
    (DecoderDone /\ comp \in DOMAIN CvTypes /\ Len(src) >= MinSize(comp)) =>
        /\ out[comp].kind = "Ok"
        /\ out[comp].val[CvTypes[comp].blob] = SubSeq(src, MinSize(comp) + 1, Len(src))
        /\ out[comp].used = Len(src)

(* The signature the documentation of each record gives its cv_signature. *)
SignatureOf(name) ==
    CASE name = "CV_INFO_PDB20" -> u32_from(CvSignature, "Pdb20")
      [] name = "CV_INFO_PDB70" -> u32_from(CvSignature, "Pdb70")
      [] name = "CV_INFO_ELF" -> u32_from(CvSignature, "Elf")

(* C19: a successfully decoded CV_INFO_PDB20, CV_INFO_PDB70 or CV_INFO_ELF *)
(* has the cv_signature of its variant; bytes that begin with another      *)
(* signature are not decoded as that variant.                              *)
C19_DecodedHasOwnSignature ==
    (DecoderDone /\ comp \in DOMAIN CvTypes /\ out[comp].kind = "Ok") =>
        out[comp].val.cv_signature = SignatureOf(comp)

-----------------------------------------------------------------------------
(* Properties of the records of strings, checked under SpecStrings.        *)

StringsCalled ==
    /\ comp \in {MacCrashInfoStringsNames[k] : k \in 1 .. Len(MacCrashInfoStringsNames)}
    /\ Len(out["set_string"].calls) >= 1

Calls == out["set_string"].calls

LastCall == Calls[Len(Calls)]

(* The string of the last call of a sequence made with index i, the empty  *)
(* default when there is none.                                             *)
RECURSIVE LastSet(_, _)
LastSet(calls, i) ==
    IF Len(calls) = 0 THEN ""
    ELSE IF calls[Len(calls)][1] = i THEN calls[Len(calls)][2]
    ELSE LastSet(SubSeq(calls, 1, Len(calls) - 1), i)

FiveStrings == <<"module_path", "message", "signature_string", "backtrace", "message2">>

HasFiveStrings ==
    comp \in {"MINIDUMP_MAC_CRASH_INFO_RECORD_STRINGS_4", "MINIDUMP_MAC_CRASH_INFO_RECORD_STRINGS_5"}

(* C25: for the _4 and _5 records num_strings() is 5 and, after any calls  *)
(* of set_string with idx < 5, the idx-th field in declaration order       *)
(* (module_path, message, signature_string, backtrace, message2) holds the *)
(* last string set for its index, or the empty default when none was: a    *)
(* call assigns its own field and leaves the other four as they were.      *)
C25_SetStringAssignsOneField ==
    (StringsCalled /\ HasFiveStrings) =>
        /\ num_strings(StringFields(comp)) = 5
        /\ StringFields(comp) = FiveStrings
        /\ DOMAIN strings = {FiveStrings[i] : i \in 1 .. 5}
        /\ \A i \in 0 .. 4 : strings[FiveStrings[i + 1]] = LastSet(Calls, i)
        /\ LastCall[1] < 5 => out["set_string"].kind = "Ok"

C25_Witness ==
    /\ StringsCalled /\ comp = "MINIDUMP_MAC_CRASH_INFO_RECORD_STRINGS_5"
    /\ Calls = << <<3, "a">>, <<0, "b">>, <<3, "b">> >>
    /\ strings["backtrace"] = "b" /\ strings["module_path"] = "b"
    /\ strings["message"] = ""

(* C26: set_string(idx, s) with idx >= num_strings() panics with "string   *)
(* index out of bounds" and leaves every field as it was; for the base     *)
(* record, with no strings, every index panics.                            *)
C26_OutOfBoundsPanics ==
    StringsCalled =>
        LET n == num_strings(StringFields(comp))
            before == SubSeq(Calls, 1, Len(Calls) - 1)
        IN  /\ (LastCall[1] >= n) <=> (out["set_string"].kind = "Panic")
            /\ LastCall[1] >= n =>
                  /\ out["set_string"].msg = <<"string index out of bounds", LastCall[1], n>>
                  /\ \A i \in 1 .. n : strings[StringFields(comp)[i]] = LastSet(before, i - 1)
            /\ comp = "MINIDUMP_MAC_CRASH_INFO_RECORD_STRINGS" =>
                  /\ n = 0
                  /\ out["set_string"].kind = "Panic"
                  /\ strings = DefaultStrings(<<>>)

C26_Witness ==
    /\ StringsCalled /\ comp = "MINIDUMP_MAC_CRASH_INFO_RECORD_STRINGS_4"
    /\ Calls = << <<4, "a">>, <<5, "b">> >>
    /\ out["set_string"].kind = "Panic"
    /\ strings["message2"] = "a"

-----------------------------------------------------------------------------
(* Properties of the enabled-feature iterator and of callers sharing their *)
(* input, checked under SpecCallers.                                       *)

Iterating(k) == comp = "XstateFeatureIter" /\ iters[k].created

(* Whether bit i of the u64 f is set, and the places of the set bits. *)
BitSet(f, i) == (f[8 - (i \div 8)] \div Pow2(i % 8)) % 2 = 1

EnabledBits(f) == {i \in 0 .. 63 : BitSet(f, i)}

ReturnedNone(k) == out[k].last.kind = "Ok" /\ ~out[k].last.val.some

ReturnedSome(k) == out[k].last.kind = "Ok" /\ out[k].last.val.some

(* C23: the items an iterator from iter() has yielded are pairs            *)
(* (i, features[i]) with bit i of enabled_features set, in strictly        *)
(* ascending order of i, with no set bit below the iterator's place left   *)
(* out; when next() has returned None they are all the set bits of 0 .. 63 *)
(* and as many as there are set bits, and with enabled_features = 0 the    *)
(* first next() returns None.                                              *)
C23_YieldsEnabledFeaturesInOrder ==
    \A k \in Callers : Iterating(k) =>
        LET items == out[k].items
            E == EnabledBits(info.enabled_features)
            yielded == {items[j][1] : j \in 1 .. Len(items)}
        IN  /\ out[k].last.kind # "Panic"
            /\ \A j \in 1 .. Len(items) :
                  /\ items[j][1] \in E
                  /\ items[j][2] = info.features[items[j][1] + 1]
                  /\ j < Len(items) => items[j][1] < items[j + 1][1]
            /\ yielded = {i \in E : i < iters[k].idx}
            /\ ReturnedSome(k) => out[k].last.val.val = items[Len(items)]
            /\ ReturnedNone(k) => yielded = E /\ Len(items) = Cardinality(E)
            /\ (E = {} /\ out[k].last # NoResult) => ReturnedNone(k) /\ items = <<>>

C23_Witness ==
    /\ Iterating("a")
    /\ info.enabled_features = <<64, 0, 0, 0, 0, 0, 1, 6>>
    /\ ReturnedNone("a")
    /\ Len(out["a"].items) = 4
    /\ out["a"].items[3] = <<8, [offset |-> <<0, 0, 0, 128>>, size |-> <<0, 0, 0, 9>>]>>
    /\ out["a"].items[4][1] = 62

(* C24: in every state 0 <= idx <= 64, no shift in the bit test is by more *)
(* than 63, no call panics, every item returned cost at least one advance  *)
(* of idx (so None comes after at most 64 advances, with idx = 64); and in *)
(* every step idx does not decrease, and a call made after None has been   *)
(* returned returns None again and leaves idx and the items as they were.  *)
C24_IteratorTerminates ==
    /\ [](\A k \in Callers : Iterating(k) =>
             /\ 0 <= iters[k].idx /\ iters[k].idx <= 64
             /\ out[k].shift <= 63
             /\ out[k].last.kind # "Panic"
             /\ Len(out[k].items) <= iters[k].idx
             /\ ReturnedNone(k) => iters[k].idx = 64)
    /\ [][\A k \in Callers : Iterating(k) =>
             /\ iters'[k].idx >= iters[k].idx
             /\ (ReturnedSome(k)' /\ out'[k] # out[k]) => iters'[k].idx > iters[k].idx
             /\ (ReturnedNone(k) /\ out'[k] # out[k]) =>
                   /\ ReturnedNone(k)'
                   /\ out'[k].nones = out[k].nones + 1
                   /\ iters'[k].idx = iters[k].idx
                   /\ out'[k].items = out[k].items]_vars

C24_Witness ==
    /\ Iterating("b")
    /\ info.enabled_features = <<128, 0, 0, 0, 0, 0, 0, 1>>
    /\ out["b"].nones = 2
    /\ iters["b"].idx = 64
    /\ out["b"].shift = 63

(* What the first n calls of next() return, and the iterator they leave,   *)
(* when one caller makes them on an iterator of its own with no other      *)
(* caller running.                                                         *)
Alone(n) ==
    LET run[j \in 0 .. n] ==
            IF j = 0 THEN [it |-> iter(info), results |-> <<>>]
            ELSE LET before == run[j - 1]
                     r == next(before.it, info, build)
                 IN  [it |-> [before.it EXCEPT !.idx = r.idx],
                      results |-> Append(before.results, r.result)]
    IN  run[n]

(* What caller k's calls of next() have returned, in order. *)
Results(k) ==
    [j \in 1 .. Len(out[k].items) |-> [kind |-> "Ok", val |-> Some(out[k].items[j])]]
        \o [j \in 1 .. out[k].nones |-> [kind |-> "Ok", val |-> None]]

(* Caller k's results and iterator are those of as many calls made alone. *)
AsAlone(k) ==
    LET alone == Alone(Len(out[k].items) + out[k].nones)
    IN  Results(k) = alone.results /\ iters[k] = alone.it

(* C22: however the two callers' operations interleave, each caller's      *)
(* decodes of the shared buffer give what one decode of it gives, and its  *)
(* iterator's results and place are those of the same number of calls made *)
(* alone; no step changes the shared buffer or info, and no step changes   *)
(* the iterator or the results of more than one caller.                    *)
C22_CallersDoNotInterfere ==
    /\ [](\A k \in Callers :
             /\ comp = "MINIDUMP_UTF8_STRING" =>
                   \A j \in 1 .. Len(out[k].decoded) :
                       out[k].decoded[j] = Utf8TryFromCtx(src, endian, build)
             /\ Iterating(k) => AsAlone(k))
    /\ [][/\ src' = src
          /\ info' = info
          /\ Cardinality({k \in Callers : iters'[k] # iters[k] \/ out'[k] # out[k]}) <= 1]_vars

C22_Witness ==
    /\ Iterating("a") /\ Iterating("b")
    /\ info.enabled_features = <<64, 0, 0, 0, 0, 0, 1, 6>>
    /\ iters["a"].idx = 3 /\ Len(out["a"].items) = 2
    /\ iters["b"].idx = 63 /\ Len(out["b"].items) = 4

=============================================================================
